---- MODULE Spec2Model ----
(***************************************************************************)
(* Model of the contact solver of phyx (src/src/Solver.cpp): the SoA solve *)
(* path SolveJointsSoA<N> with its grouping (SolvePrepareIndicesSoA),      *)
(* packing (SolvePrepareSoA), RefreshJointsSoA, PreStepJointsSoA, the      *)
(* impulse and displacement passes and SolveFinishSoA.                     *)
(*                                                                         *)
(* Arrays are functions on 0..n-1, as in the source.  A float is modelled  *)
(* as a fixed-point number with six decimal digits (an integer count of    *)
(* millionths); 0/0 is the distinguished value NaN.                        *)
(***************************************************************************)
EXTENDS Integers, Sequences, FiniteSets, TLC

VARIABLES
    bodies,                      \* RigidBody* bodies (caller owned)
    contactPoints,               \* ContactPoint* contactPoints (caller owned)
    contactJoints,               \* Solver::contactJoints
    laneWidth,                   \* template parameter N of SolveJointsSoA<N>
    contactIterationsCount,      \* argument of SolveJointsSoA
    penetrationIterationsCount,  \* argument of SolveJointsSoA
    solveBodiesParams,           \* Solver::solveBodiesParams
    solveBodiesImpulse,          \* Solver::solveBodiesImpulse
    solveBodiesDisplacement,     \* Solver::solveBodiesDisplacement
    joint_index,                 \* Solver::joint_index
    joint_packed,                \* joint_packed1 / joint_packed4 / joint_packed8
    groupOffset,                 \* local of SolveJointsSoA
    iterationIndex,              \* loop variable of SolveJointsSoA
    pc,                          \* position inside SolveJointsSoA
    result,                      \* value returned by SolveJointsSoA
    entry,                       \* history: bodies and contactJoints at entry,
                                 \* iteration counts and metric of the call before
    frame                        \* number of solves started so far

vars == <<bodies, contactPoints, contactJoints, laneWidth,
          contactIterationsCount, penetrationIterationsCount,
          solveBodiesParams, solveBodiesImpulse, solveBodiesDisplacement,
          joint_index, joint_packed, groupOffset, iterationIndex, pc,
          result, entry, frame>>

-----------------------------------------------------------------------------
(* Float arithmetic.  A float is a whole number of millionths; a product   *)
(* and a quotient are rounded to the nearest millionth, sums are exact.    *)

AbsInt(a) == IF a < 0 THEN -a ELSE a
Sign(a) == IF a < 0 THEN 0 - 1 ELSE 1

Scale == 1000 * 1000

\* The float n / d for small whole numbers n and d > 0 (d divides n * Scale
\* in every use, so the literal is exact).
Q(n, d) == (n * Scale) \div d
IntF(n) == n * Scale

Zero == 0 * Scale
One  == 1 * Scale

\* The value of a float expression that may divide by zero: a finite float,
\* NaN, or +infinity.
Finite(v) == [class |-> "finite", value |-> v]
NaN == [class |-> "nan", value |-> 0]
Inf == [class |-> "inf", value |-> 0]

Add(x, y) == x + y
Neg(x)    == 0 - x
Sub(x, y) == x - y

\* a * b / Scale rounded to nearest for a = ah * 1000 + al and b = bh * 1000
\* + bl, a >= 0 and b >= 0: the product by three-digit limbs, so that no
\* intermediate value leaves the 32-bit range.
MulLimbs(ah, al, bh, bl) ==
    ah * bh + ((ah * bl + al * bh) \div 1000)
    + ((((ah * bl + al * bh) % 1000) * 1000 + al * bl + (Scale \div 2)) \div Scale)

Mul(x, y) ==
    IF (x < 0) = (y < 0)
    THEN MulLimbs(AbsInt(x) \div 1000, AbsInt(x) % 1000,
                  AbsInt(y) \div 1000, AbsInt(y) % 1000)
    ELSE 0 - MulLimbs(AbsInt(x) \div 1000, AbsInt(x) % 1000,
                      AbsInt(y) \div 1000, AbsInt(y) % 1000)

\* The digits of r / k after the point, k > r >= 0, rounded at the last one.
RECURSIVE Fraction(_, _, _)
Fraction(r, k, unit) ==
    IF unit = 0 THEN 0
    ELSE IF unit = 1 THEN (IF 2 * ((r * 10) % k) >= k
                           THEN ((r * 10) \div k) + 1 ELSE (r * 10) \div k)
    ELSE ((r * 10) \div k) * unit + Fraction((r * 10) % k, k, unit \div 10)

\* 1 / x for x # 0.
Inv(x) ==
    LET k == AbsInt(x)
    IN  Sign(x) * ((Scale \div k) * Scale + Fraction(Scale % k, k, Scale \div 10))

Less(x, y)    == x < y
Greater(x, y) == x > y
LessEq(x, y)  == x <= y
AbsF(x)    == AbsInt(x)
MaxF(x, y) == IF x < y THEN y ELSE x

\* float(a) / float(b) for ints a >= 0 and b >= 0: 0/0 is NaN, a/0 is +inf.
FloatDiv(a, b) ==
    IF b = 0 THEN (IF a = 0 THEN NaN ELSE Inf)
    ELSE Finite(((a * Scale) \div b) + (IF 2 * ((a * Scale) % b) >= b THEN 1 ELSE 0))

-----------------------------------------------------------------------------
(* Grouping: Solver::SolvePrepareIndicesSoA.                               *)

LaneWidths == {1, 4, 8}

Unwritten == 0 - 1

\* Mutant: only body1 is tested against the tag.
BodiesFreeOnlyBody1(jointGroup_bodies, joint, tag) ==
    jointGroup_bodies[joint.body1Index] < tag

\* The test of line 165: neither body of the joint is in the current group.
BodiesFree(jointGroup_bodies, joint, tag) ==
    /\ jointGroup_bodies[joint.body1Index] < tag
    /\ jointGroup_bodies[joint.body2Index] < tag

\* Mutant: the popped slot is not refilled from the back.
SwapPopNoSwap(jointGroup_joints, size, i) ==
    [joints |-> jointGroup_joints, size |-> size - 1]

\* Lines 173-174: the last joint moves into slot i and the list shrinks.
SwapPop(jointGroup_joints, size, i) ==
    [joints |-> [jointGroup_joints EXCEPT ![i] = jointGroup_joints[size - 1]],
     size   |-> size - 1]

\* Mutant: a group is only started while more than a group's worth is left.
GroupLoopGuardStrict(size, groupSizeTarget) == size > groupSizeTarget

\* The loop condition of line 153.
GroupLoopGuard(size, groupSizeTarget) == size >= groupSizeTarget

\* Mutant: the partial group is not rounded away.
GroupedPrefixNoRounding(offset, groupSizeTarget) == offset

\* The return value of line 192.
GroupedPrefix(offset, groupSizeTarget) ==
    (offset \div groupSizeTarget) * groupSizeTarget

\* The inner for loop of lines 160-180.  st holds jointGroup_joints (joints,
\* size), jointGroup_bodies (touched), joint_index (index) and groupSize.
RECURSIVE GatherGroup(_, _, _, _, _, _)
GatherGroup(joints, st, i, tag, offset, groupSizeTarget) ==
    IF i < st.size /\ st.groupSize < groupSizeTarget
    THEN LET jointIndex == st.joints[i]
             joint == joints[jointIndex]
         IN  IF BodiesFree(st.touched, joint, tag)
             THEN LET popped == SwapPop(st.joints, st.size, i)
                  IN  GatherGroup(joints,
                        [joints    |-> popped.joints,
                         size      |-> popped.size,
                         touched   |-> [b \in DOMAIN st.touched |->
                                          IF b \in {joint.body1Index, joint.body2Index}
                                          THEN tag ELSE st.touched[b]],
                         index     |-> [st.index EXCEPT ![offset + st.groupSize] = jointIndex],
                         groupSize |-> st.groupSize + 1],
                        i, tag, offset, groupSizeTarget)
             ELSE GatherGroup(joints, st, i + 1, tag, offset, groupSizeTarget)
    ELSE st

\* The while loop of lines 153-186.
RECURSIVE GroupLoop(_, _, _, _, _)
GroupLoop(joints, st, tag, offset, groupSizeTarget) ==
    IF GroupLoopGuard(st.size, groupSizeTarget)
    THEN LET g == GatherGroup(joints, [st EXCEPT !.groupSize = 0], 0, tag + 1,
                              offset, groupSizeTarget)
             newOffset == offset + g.groupSize
         IN  IF g.groupSize < groupSizeTarget
             THEN [st |-> g, offset |-> newOffset]
             ELSE GroupLoop(joints, g, tag + 1, newOffset, groupSizeTarget)
    ELSE [st |-> st, offset |-> offset]

\* Line 131 never taking the scalar branch.
ScalarGroupingNever(groupSizeTarget) == FALSE

\* Line 131: groupSizeTarget == 1.
ScalarGrouping(groupSizeTarget) == groupSizeTarget = 1

\* SolvePrepareIndicesSoA: [index |-> joint_index, groupOffset |-> returned].
\* joint_index starts Unwritten so that a slot the routine never stores to
\* stays visible.
SolvePrepareIndicesSoA(joints, bodiesCount, groupSizeTarget) ==
    LET jointCount == Cardinality(DOMAIN joints)
        blank == [i \in 0..(jointCount - 1) |-> Unwritten]
    IN  IF ScalarGrouping(groupSizeTarget)
        THEN [index |-> [i \in 0..(jointCount - 1) |-> i],
              groupOffset |-> jointCount]
        ELSE LET st0 == [joints    |-> [i \in 0..(jointCount - 1) |-> i],
                         size      |-> jointCount,
                         touched   |-> [b \in 0..(bodiesCount - 1) |-> 0],
                         index     |-> blank,
                         groupSize |-> 0]
                 r == GroupLoop(joints, st0, 0, 0, groupSizeTarget)
                 filled == [i \in 0..(jointCount - 1) |->
                              IF i >= r.offset /\ i - r.offset < r.st.size
                              THEN r.st.joints[i - r.offset]
                              ELSE r.st.index[i]]
             IN  [index |-> filled,
                  groupOffset |-> GroupedPrefix(r.offset, groupSizeTarget)]

-----------------------------------------------------------------------------
(* Vectors, limiters and the tuning constants.                             *)

Vec(x, y) == [x |-> x, y |-> y]
VZero == Vec(Zero, Zero)
VAdd(a, b) == Vec(Add(a.x, b.x), Add(a.y, b.y))
VSub(a, b) == Vec(Sub(a.x, b.x), Sub(a.y, b.y))
VNeg(a) == Vec(Neg(a.x), Neg(a.y))
VScale(a, k) == Vec(Mul(a.x, k), Mul(a.y, k))
Dot(a, b) == Add(Mul(a.x, b.x), Mul(a.y, b.y))

kProductiveImpulse == Q(1, 10000)      \* 1e-4f
kFrictionCoefficient == Q(3, 10)       \* 0.3f
bounce == Zero
deltaVelocity == One
maxPenetrationVelocity == Q(1, 10)
deltaDepth == One
errorReduction == Q(1, 10)

\* A limiter as ContactJoint holds it before any Refresh of the SoA path.
BlankLimiter ==
    [normalProjector1 |-> VZero, normalProjector2 |-> VZero,
     angularProjector1 |-> Zero, angularProjector2 |-> Zero,
     compMass1_linear |-> VZero, compMass2_linear |-> VZero,
     compMass1_angular |-> Zero, compMass2_angular |-> Zero,
     compInvMass |-> Zero]

\* A packed lane that SolvePrepareSoA has not filled.
Unset == [unset |-> TRUE]

\* Line 564 with a unit in place of the zero.
CompInvMassNoZero(compMass) ==
    IF Greater(AbsF(compMass), Zero) THEN Inv(compMass) ELSE One

\* Line 564: select(zero, 1 / compMass, abs(compMass) > zero).
CompInvMass(compMass) ==
    IF Greater(AbsF(compMass), Zero) THEN Inv(compMass) ELSE Zero

\* RefreshLimiter, lines 545-564.
RefreshLimiter(n1, n2, w1, w2, body1_invMass, body1_invInertia, body2_invMass, body2_invInertia) ==
    LET angularProjector1 == Sub(Mul(n1.x, w1.y), Mul(n1.y, w1.x))
        angularProjector2 == Sub(Mul(n2.x, w2.y), Mul(n2.y, w2.x))
        compMass1_linear == VScale(n1, body1_invMass)
        compMass1_angular == Mul(angularProjector1, body1_invInertia)
        compMass2_linear == VScale(n2, body2_invMass)
        compMass2_angular == Mul(angularProjector2, body2_invInertia)
        compMass1 == Add(Dot(n1, compMass1_linear),
                         Mul(angularProjector1, compMass1_angular))
        compMass2 == Add(Dot(n2, compMass2_linear),
                         Mul(angularProjector2, compMass2_angular))
        compMass == Add(compMass1, compMass2)
    IN  [normalProjector1 |-> n1, normalProjector2 |-> n2,
         angularProjector1 |-> angularProjector1,
         angularProjector2 |-> angularProjector2,
         compMass1_linear |-> compMass1_linear,
         compMass2_linear |-> compMass2_linear,
         compMass1_angular |-> compMass1_angular,
         compMass2_angular |-> compMass2_angular,
         compInvMass |-> CompInvMass(compMass)]

\* Mutant: the penetration allowance is applied at every depth.
DstVelocityAlwaysPenetrating(relativeVelocity, normal, depth) ==
    Sub(MaxF(Sub(Neg(Mul(bounce, Dot(relativeVelocity, normal))), deltaVelocity),
             Zero),
        maxPenetrationVelocity)

\* Lines 681-686 with depth <= deltaDepth in the select of line 686.
DstVelocityDepthInclusive(relativeVelocity, normal, depth) ==
    IF LessEq(depth, deltaDepth)
    THEN Sub(MaxF(Sub(Neg(Mul(bounce, Dot(relativeVelocity, normal))), deltaVelocity),
                  Zero),
             maxPenetrationVelocity)
    ELSE MaxF(Sub(Neg(Mul(bounce, Dot(relativeVelocity, normal))), deltaVelocity), Zero)

\* Lines 681-686: the normal limiter's target velocity.
DstVelocity(relativeVelocity, normal, depth) ==
    LET dv == Neg(Mul(bounce, Dot(relativeVelocity, normal)))
        dstVelocity == MaxF(Sub(dv, deltaVelocity), Zero)
    IN  IF Less(depth, deltaDepth)
        THEN Sub(dstVelocity, maxPenetrationVelocity)
        ELSE dstVelocity

\* Mutant: the slop of 2 * deltaDepth is not subtracted.
DstDisplacingVelocityNoSlop(depth) == Mul(errorReduction, MaxF(Zero, depth))

\* Line 688.
DstDisplacingVelocity(depth) ==
    Mul(errorReduction, MaxF(Zero, Sub(depth, Mul(IntF(2), deltaDepth))))

\* Line 690 left out: the displacing impulse of the frame before stays.
RefreshedDisplacingImpulseKept(old) == old

\* Line 690.
RefreshedDisplacingImpulse(old) == Zero

\* One lane of the loop body of RefreshJointsSoA, lines 580-739: jp is the
\* lane of the packed joint, the result the lane after the stores.
RefreshLane(jp, params, impulse, points) ==
    IF jp = Unset THEN Unset ELSE
    LET p1 == params[jp.body1Index]
        p2 == params[jp.body2Index]
        b1 == impulse[jp.body1Index]
        b2 == impulse[jp.body2Index]
        cp == points[jp.contactPointIndex]
        point1 == VAdd(cp.delta1, p1.coords_pos)
        point2 == VAdd(cp.delta2, p2.coords_pos)
        w1 == cp.delta1
        w2 == VSub(point1, p2.coords_pos)
        nl == RefreshLimiter(cp.normal, VNeg(cp.normal), w1, w2,
                             p1.invMass, p1.invInertia, p2.invMass, p2.invInertia)
        pointVelocity_body1 ==
            Vec(Add(Mul(Sub(p1.coords_pos.y, point1.y), b1.angularVelocity), b1.velocity.x),
                Add(Mul(Sub(point1.x, p1.coords_pos.x), b1.angularVelocity), b1.velocity.y))
        pointVelocity_body2 ==
            Vec(Add(Mul(Sub(p2.coords_pos.y, point2.y), b2.angularVelocity), b2.velocity.x),
                Add(Mul(Sub(point2.x, p2.coords_pos.x), b2.angularVelocity), b2.velocity.y))
        relativeVelocity == VSub(pointVelocity_body1, pointVelocity_body2)
        depth == Dot(VSub(point2, point1), cp.normal)
        tangent == Vec(Neg(cp.normal.y), cp.normal.x)
        fl == RefreshLimiter(tangent, VNeg(tangent), w1, w2,
                             p1.invMass, p1.invInertia, p2.invMass, p2.invInertia)
    IN  [jp EXCEPT
           !.normalLimiter = nl,
           !.normalLimiter_dstVelocity = DstVelocity(relativeVelocity, cp.normal, depth),
           !.normalLimiter_dstDisplacingVelocity = DstDisplacingVelocity(depth),
           !.normalLimiter_accumulatedDisplacingImpulse =
               RefreshedDisplacingImpulse(jp.normalLimiter_accumulatedDisplacingImpulse),
           !.frictionLimiter = fl]

-----------------------------------------------------------------------------
(* Gather/scatter of SolveBody records and the per-lane solve steps.       *)

\* The block and first lane a loop iteration at joint i addresses:
\* joint_packed[unsigned(i) / N] and iP = (VN == N) ? 0 : i & (N - 1).
BlockOf(i, N) == i \div N

\* iP of lines 580, 756, 831 and 989 with 0 on both branches.
LaneOfAlwaysFirst(i, VN, N) == 0

LaneOf(i, VN, N) == IF VN = N THEN 0 ELSE i % N

\* A function value tabulated once (TLC would otherwise re-evaluate the
\* constructor's body at every application); the value is f itself.
Tabulate(f) == IF f = f THEN f ELSE f

\* storeindexed4: lane l of vals goes to table[idx[l]], lanes in order.
Scatter(table, idx, vals) ==
    [b \in DOMAIN table |->
        IF \E l \in DOMAIN idx : idx[l] = b
        THEN LET last == CHOOSE l \in DOMAIN idx :
                            /\ idx[l] = b
                            /\ \A m \in DOMAIN idx : idx[m] = b => m <= l
             IN  vals[last]
        ELSE table[b]]

\* velocity += linear * impulse; angularVelocity += angular * impulse.
ApplyImpulse(b, linear, angular, impulse) ==
    [b EXCEPT !.velocity = VAdd(@, VScale(linear, impulse)),
              !.angularVelocity = Add(@, Mul(angular, impulse))]

\* dstVelocity minus the limiter's velocity along its projectors.
LimiterDV(dst, lim, b1, b2) ==
    Sub(Sub(Sub(Sub(dst, Dot(lim.normalProjector1, b1.velocity)),
                Mul(lim.angularProjector1, b1.angularVelocity)),
            Dot(lim.normalProjector2, b2.velocity)),
        Mul(lim.angularProjector2, b2.angularVelocity))

\* Mutant: the warm start applies the normal impulse only.
PreStepLaneNormalOnly(jp, b1, b2) ==
    [b1 |-> ApplyImpulse(b1, jp.normalLimiter.compMass1_linear,
                         jp.normalLimiter.compMass1_angular,
                         jp.normalLimiter_accumulatedImpulse),
     b2 |-> ApplyImpulse(b2, jp.normalLimiter.compMass2_linear,
                         jp.normalLimiter.compMass2_angular,
                         jp.normalLimiter_accumulatedImpulse)]

\* One lane of PreStepJointsSoA, lines 786-800.
PreStepLane(jp, b1, b2) ==
    LET nl == jp.normalLimiter
        fl == jp.frictionLimiter
        n == jp.normalLimiter_accumulatedImpulse
        f == jp.frictionLimiter_accumulatedImpulse
    IN  [b1 |-> ApplyImpulse(ApplyImpulse(b1, nl.compMass1_linear, nl.compMass1_angular, n),
                             fl.compMass1_linear, fl.compMass1_angular, f),
         b2 |-> ApplyImpulse(ApplyImpulse(b2, nl.compMass2_linear, nl.compMass2_angular, n),
                             fl.compMass2_linear, fl.compMass2_angular, f)]

\* Mutant: the delta impulse is not clamped against the accumulated one.
ClampDeltaNone(deltaImpulse, accumulated) == deltaImpulse

\* Lines 897 and 1039: max(deltaImpulse, -accumulated).
ClampDelta(deltaImpulse, accumulated) == MaxF(deltaImpulse, Neg(accumulated))

\* flipsign(a, b) of base/SIMD.h: a with the sign of b.
FlipSign(a, b) == IF b < 0 THEN Neg(AbsF(a)) ELSE AbsF(a)

\* Mutant: the friction impulse is never limited by the cone.
FrictionDeltaUnclamped(frictionDeltaImpulse, accumulatedImpulse, reactionForce) ==
    frictionDeltaImpulse

\* Lines 921-931: the friction delta impulse after the cone clamp.
FrictionDelta(frictionDeltaImpulse, accumulatedImpulse, reactionForce) ==
    LET frictionForce == Add(accumulatedImpulse, frictionDeltaImpulse)
        reactionForceScaled == Mul(reactionForce, kFrictionCoefficient)
        reactionForceScaledSigned == FlipSign(reactionForceScaled, frictionForce)
    IN  IF Greater(AbsF(frictionForce), reactionForceScaled)
        THEN Sub(reactionForceScaledSigned, accumulatedImpulse)
        ELSE frictionDeltaImpulse

\* Lines 948 and 1053: cumulativeImpulse > kProductiveImpulse.
Productive(cumulativeImpulse) == Greater(cumulativeImpulse, kProductiveImpulse)

\* Lines 946-962 without the select of line 953: body2 keeps its counter.
ImpulseLaneStoreBody1Only(jp, b1, b2, iterationIndex0, accumulatedNormal, accumulatedFriction, productive) ==
    <<[jp EXCEPT !.normalLimiter_accumulatedImpulse = accumulatedNormal,
                 !.frictionLimiter_accumulatedImpulse = accumulatedFriction],
      [b1 EXCEPT !.lastIteration = IF productive THEN iterationIndex0 ELSE @],
      b2,
      productive>>

\* Lines 946-962 with the selects of lines 952-953 giving -1, not the old
\* counter, where the lane was not productive.
ImpulseLaneStoreReset(jp, b1, b2, iterationIndex0, accumulatedNormal, accumulatedFriction, productive) ==
    <<[jp EXCEPT !.normalLimiter_accumulatedImpulse = accumulatedNormal,
                 !.frictionLimiter_accumulatedImpulse = accumulatedFriction],
      [b1 EXCEPT !.lastIteration = IF productive THEN iterationIndex0 ELSE 0 - 1],
      [b2 EXCEPT !.lastIteration = IF productive THEN iterationIndex0 ELSE 0 - 1],
      productive>>

\* Lines 946-962: the accumulated impulses and the bodies stored by a lane,
\* lastIteration set where the lane was productive.
ImpulseLaneStore(jp, b1, b2, iterationIndex0, accumulatedNormal, accumulatedFriction, productive) ==
    <<[jp EXCEPT !.normalLimiter_accumulatedImpulse = accumulatedNormal,
                 !.frictionLimiter_accumulatedImpulse = accumulatedFriction],
      [b1 EXCEPT !.lastIteration = IF productive THEN iterationIndex0 ELSE @],
      [b2 EXCEPT !.lastIteration = IF productive THEN iterationIndex0 ELSE @],
      productive>>

\* Lines 933-944: the friction impulse applied to the two bodies.
ImpulseLaneFrictionApply(jp, b1, b2, iterationIndex0, normalDeltaImpulse, accumulatedNormal, frictionDeltaImpulse) ==
    ImpulseLaneStore(
        jp,
        ApplyImpulse(b1, jp.frictionLimiter.compMass1_linear,
                     jp.frictionLimiter.compMass1_angular, frictionDeltaImpulse),
        ApplyImpulse(b2, jp.frictionLimiter.compMass2_linear,
                     jp.frictionLimiter.compMass2_angular, frictionDeltaImpulse),
        iterationIndex0, accumulatedNormal,
        Add(jp.frictionLimiter_accumulatedImpulse, frictionDeltaImpulse),
        Productive(MaxF(AbsF(normalDeltaImpulse), AbsF(frictionDeltaImpulse))))

\* Lines 909-931: the friction delta impulse from the bodies the normal
\* impulse has already moved.
ImpulseLaneFriction(jp, b1, b2, iterationIndex0, normalDeltaImpulse, accumulatedNormal) ==
    ImpulseLaneFrictionApply(
        jp, b1, b2, iterationIndex0, normalDeltaImpulse, accumulatedNormal,
        FrictionDelta(Mul(LimiterDV(Zero, jp.frictionLimiter, b1, b2),
                          jp.frictionLimiter.compInvMass),
                      jp.frictionLimiter_accumulatedImpulse, accumulatedNormal))

\* Lines 899-907: the normal impulse applied and accumulated.
ImpulseLaneNormalApply(jp, b1, b2, iterationIndex0, normalDeltaImpulse) ==
    ImpulseLaneFriction(
        jp,
        ApplyImpulse(b1, jp.normalLimiter.compMass1_linear,
                     jp.normalLimiter.compMass1_angular, normalDeltaImpulse),
        ApplyImpulse(b2, jp.normalLimiter.compMass2_linear,
                     jp.normalLimiter.compMass2_angular, normalDeltaImpulse),
        iterationIndex0, normalDeltaImpulse,
        Add(jp.normalLimiter_accumulatedImpulse, normalDeltaImpulse))

\* One lane of the solved part of SolveJointsImpulsesSoA, lines 885-962:
\* <<the lane, body1, body2, productive>> after it.
ImpulseLane(jp, b1, b2, iterationIndex0) ==
    ImpulseLaneNormalApply(
        jp, b1, b2, iterationIndex0,
        ClampDelta(Mul(LimiterDV(jp.normalLimiter_dstVelocity, jp.normalLimiter, b1, b2),
                       jp.normalLimiter.compInvMass),
                   jp.normalLimiter_accumulatedImpulse))

\* Lines 1041-1068 accumulating into the normal impulse of the impulse pass.
DisplacementLaneApplyToNormal(jp, b1, b2, iterationIndex0, displacingDeltaImpulse, productive) ==
    <<[jp EXCEPT !.normalLimiter_accumulatedImpulse = Add(@, displacingDeltaImpulse)],
      [ApplyImpulse(b1, jp.normalLimiter.compMass1_linear,
                    jp.normalLimiter.compMass1_angular, displacingDeltaImpulse)
          EXCEPT !.lastIteration = IF productive THEN iterationIndex0 ELSE @],
      [ApplyImpulse(b2, jp.normalLimiter.compMass2_linear,
                    jp.normalLimiter.compMass2_angular, displacingDeltaImpulse)
          EXCEPT !.lastIteration = IF productive THEN iterationIndex0 ELSE @],
      productive>>

\* Lines 1041-1068: the displacing impulse applied and accumulated.
DisplacementLaneApply(jp, b1, b2, iterationIndex0, displacingDeltaImpulse, productive) ==
    <<[jp EXCEPT !.normalLimiter_accumulatedDisplacingImpulse =
                     Add(@, displacingDeltaImpulse)],
      [ApplyImpulse(b1, jp.normalLimiter.compMass1_linear,
                    jp.normalLimiter.compMass1_angular, displacingDeltaImpulse)
          EXCEPT !.lastIteration = IF productive THEN iterationIndex0 ELSE @],
      [ApplyImpulse(b2, jp.normalLimiter.compMass2_linear,
                    jp.normalLimiter.compMass2_angular, displacingDeltaImpulse)
          EXCEPT !.lastIteration = IF productive THEN iterationIndex0 ELSE @],
      productive>>

\* Lines 1053-1055 on the delta impulse of lines 1027-1039.
DisplacementLaneProductive(jp, b1, b2, iterationIndex0, displacingDeltaImpulse) ==
    DisplacementLaneApply(jp, b1, b2, iterationIndex0, displacingDeltaImpulse,
                          Productive(AbsF(displacingDeltaImpulse)))

\* One lane of the solved part of SolveJointsDisplacementSoA, lines 1027-1068.
DisplacementLane(jp, b1, b2, iterationIndex0) ==
    DisplacementLaneProductive(
        jp, b1, b2, iterationIndex0,
        ClampDelta(Mul(LimiterDV(jp.normalLimiter_dstDisplacingVelocity,
                                 jp.normalLimiter, b1, b2),
                       jp.normalLimiter.compInvMass),
                   jp.normalLimiter_accumulatedDisplacingImpulse))

-----------------------------------------------------------------------------
(* The loops over [jointBegin, jointEnd) with step VN.                     *)

\* The lanes of block BlockOf(i, N) that the iteration at joint i works on.
LanesAt(i, VN, N) == LaneOf(i, VN, N)..(LaneOf(i, VN, N) + VN - 1)

\* store(v, &jointP.field[iP]): lanes iP .. iP + VN - 1 of the block.
StoreLanes(packed, i, VN, N, newLanes) ==
    [packed EXCEPT ![BlockOf(i, N)] =
        [lane \in DOMAIN @ |->
            IF lane \in LanesAt(i, VN, N)
            THEN newLanes[lane - LaneOf(i, VN, N)] ELSE @[lane]]]

\* Vf::load(&jointP.field[iP]): the VN lanes as a function on 0..VN-1.
LoadLanes(packed, i, VN, N) ==
    [l \in 0..(VN - 1) |-> packed[BlockOf(i, N)][LaneOf(i, VN, N) + l]]

\* RefreshJointsSoA<VN>, lines 578-740.
RECURSIVE RefreshJointsSoA(_, _, _, _, _, _, _, _)
RefreshJointsSoA(packed, jointBegin, jointEnd, VN, N, params, impulse, points) ==
    IF jointBegin < jointEnd
    THEN LET jp == LoadLanes(packed, jointBegin, VN, N)
             new == [l \in 0..(VN - 1) |-> RefreshLane(jp[l], params, impulse, points)]
         IN  RefreshJointsSoA(Tabulate(StoreLanes(packed, jointBegin, VN, N, new)),
                              jointBegin + VN, jointEnd, VN, N, params, impulse, points)
    ELSE packed

\* PreStepJointsSoA<VN>, lines 754-807: the body table after the loop.
RECURSIVE PreStepJointsSoA(_, _, _, _, _, _)
PreStepJointsSoA(packed, impulse, jointBegin, jointEnd, VN, N) ==
    IF jointBegin < jointEnd
    THEN LET jp == LoadLanes(packed, jointBegin, VN, N)
             idx1 == [l \in 0..(VN - 1) |-> jp[l].body1Index]
             idx2 == [l \in 0..(VN - 1) |-> jp[l].body2Index]
             res == Tabulate([l \in 0..(VN - 1) |->
                        PreStepLane(jp[l], impulse[idx1[l]], impulse[idx2[l]])])
             stored == Scatter(Scatter(impulse, idx1, [l \in 0..(VN - 1) |-> res[l].b1]),
                               idx2, [l \in 0..(VN - 1) |-> res[l].b2])
         IN  PreStepJointsSoA(packed, Tabulate(stored), jointBegin + VN, jointEnd, VN, N)
    ELSE impulse

\* Lines 845-846 and 1003-1004 with iterationIndex - 1 for the cutoff.
BodyProductiveLateCutoff(lastIteration, iterationIndex0) ==
    lastIteration > iterationIndex0 - 1

\* Lines 845-846 and 1003-1004 with iterationIndex - 3 for the cutoff.
BodyProductiveEarlyCutoff(lastIteration, iterationIndex0) ==
    lastIteration > iterationIndex0 - 3

\* Lines 845-846 and 1003-1004: lastIteration > iterationIndex - 2.
BodyProductive(lastIteration, iterationIndex0) ==
    lastIteration > iterationIndex0 - 2

\* Lines 845-846 and 1003-1004 over the lanes of a block: some body of some
\* lane was productive recently.
BlockProductive(table, jp, VN, iterationIndex0) ==
    \E l \in 0..(VN - 1) :
       \/ BodyProductive(table[jp[l].body1Index].lastIteration, iterationIndex0)
       \/ BodyProductive(table[jp[l].body2Index].lastIteration, iterationIndex0)

\* The stores of a block that was solved: the lanes, body1 of every lane and
\* then body2 of every lane (lines 933-944 and 1041-1051), and
\* productive_any (lines 960-962 and 1066-1068).
SolveBlockStore(st, jointBegin, VN, N, jp, res) ==
    [packed |-> Tabulate(StoreLanes(st.packed, jointBegin, VN, N,
                                    [l \in 0..(VN - 1) |-> res[l][1]])),
     table |-> Tabulate(Scatter(Scatter(st.table,
                                        [l \in 0..(VN - 1) |-> jp[l].body1Index],
                                        [l \in 0..(VN - 1) |-> res[l][2]]),
                                [l \in 0..(VN - 1) |-> jp[l].body2Index],
                                [l \in 0..(VN - 1) |-> res[l][3]])),
     productive_any |-> st.productive_any \/ \E l \in 0..(VN - 1) : res[l][4]]

\* One block of the loop: skipped by the continue of lines 849 and 1007, or
\* solved lane by lane from the bodies loaded at its start.
SolveBlockLanes(kind, st, jointBegin, VN, N, iterationIndex0, jp) ==
    IF ~BlockProductive(st.table, jp, VN, iterationIndex0)
    THEN st
    ELSE SolveBlockStore(
            st, jointBegin, VN, N, jp,
            Tabulate([l \in 0..(VN - 1) |->
                IF kind = "impulse"
                THEN ImpulseLane(jp[l], st.table[jp[l].body1Index],
                                 st.table[jp[l].body2Index], iterationIndex0)
                ELSE DisplacementLane(jp[l], st.table[jp[l].body1Index],
                                      st.table[jp[l].body2Index], iterationIndex0)]))

\* The loop of SolveJointsImpulsesSoA<VN> (kind "impulse", lines 826-963)
\* and of SolveJointsDisplacementSoA<VN> (kind "displacement", lines
\* 984-1069).  st = [packed, table, productive_any]; table is the body table
\* the pass works on.
RECURSIVE SolveJointsLoop(_, _, _, _, _, _, _)
SolveJointsLoop(kind, st, jointBegin, jointEnd, VN, N, iterationIndex0) ==
    IF jointBegin < jointEnd
    THEN SolveJointsLoop(kind,
                         SolveBlockLanes(kind, st, jointBegin, VN, N, iterationIndex0,
                                         LoadLanes(st.packed, jointBegin, VN, N)),
                         jointBegin + VN, jointEnd, VN, N, iterationIndex0)
    ELSE st

\* Lines 102 and 116 assigning the flag of the scalar call (= for |=).
SolvePassTailFlagOnly(kind, wide, tail) ==
    [packed |-> tail.packed, table |-> tail.table,
     productive |-> tail.productive_any]

\* Lines 101-102 and 115-116: the scalar call on the tail after the wide one,
\* and the OR of the two results.
SolvePassTail(kind, wide, tail) ==
    [packed |-> tail.packed, table |-> tail.table,
     productive |-> wide.productive_any \/ tail.productive_any]

\* Lines 101-102 and 115-116 with a short-circuit (a || b for the two |=):
\* the scalar call is not made once the wide call was productive.
SolvePassWideShortCircuit(kind, wide, offset, jointCount, N, iterationIndex0) ==
    IF wide.productive_any
    THEN [packed |-> wide.packed, table |-> wide.table, productive |-> TRUE]
    ELSE SolvePassTail(kind, wide,
                       SolveJointsLoop(kind, wide, offset, jointCount, 1, N,
                                       iterationIndex0))

\* Lines 101-102 and 115-116: the scalar call follows the wide call.
SolvePassWide(kind, wide, offset, jointCount, N, iterationIndex0) ==
    SolvePassTail(kind, wide,
                  SolveJointsLoop(kind, [wide EXCEPT !.productive_any = FALSE],
                                  offset, jointCount, 1, N, iterationIndex0))

\* One pass of a loop of SolveJointsSoA, lines 99-102 and 113-116: the wide
\* call on [0, groupOffset) and then the scalar call on the tail.
SolvePass(kind, packed, table, offset, jointCount, N, iterationIndex0) ==
    SolvePassWide(kind,
                  SolveJointsLoop(kind, [packed |-> packed, table |-> table,
                                         productive_any |-> FALSE],
                                  0, offset, N, N, iterationIndex0),
                  offset, jointCount, N, iterationIndex0)

-----------------------------------------------------------------------------
(* SolvePrepareSoA and SolveFinishSoA.                                     *)

\* Lines 271-272 and 341-342: block unsigned(i) / N, lane i & (N - 1)
\* (N is a power of two, so the mask is i mod N).
PackedSlot(i, N) == <<i \div N, i % N>>

\* Lines 274-312: the packed lane made from a ContactJoint.
PackJoint(joint) ==
    [body1Index |-> joint.body1Index,
     body2Index |-> joint.body2Index,
     contactPointIndex |-> joint.collisionIndex,
     normalLimiter |-> joint.normalLimiter.limiter,
     normalLimiter_accumulatedImpulse |-> joint.normalLimiter.accumulatedImpulse,
     normalLimiter_dstVelocity |-> joint.normalLimiter.dstVelocity,
     normalLimiter_dstDisplacingVelocity |-> joint.normalLimiter.dstDisplacingVelocity,
     normalLimiter_accumulatedDisplacingImpulse |->
         joint.normalLimiter.accumulatedDisplacingImpulse,
     frictionLimiter |-> joint.frictionLimiter.limiter,
     frictionLimiter_accumulatedImpulse |-> joint.frictionLimiter.accumulatedImpulse]

\* Lines 260 and 267-313: joint_packed after the CopyJoints loop.  The array
\* is resized to jointCount blocks of N lanes; a lane the loop does not store
\* to is Unset, one it stores to holds what the last store left.
PackJoints(joints, index, N) ==
    LET jointCount == Cardinality(DOMAIN joints)
    IN  [blk \in 0..(jointCount - 1) |->
            [lane \in 0..(N - 1) |->
                LET Here(i) == PackedSlot(i, N) = <<blk, lane>>
                    last == CHOOSE i \in 0..(jointCount - 1) :
                                Here(i) /\ \A k \in 0..(jointCount - 1) : Here(k) => k <= i
                IN  IF \E i \in 0..(jointCount - 1) : Here(i)
                    THEN PackJoint(joints[index[last]])
                    ELSE Unset]]

\* Lines 238-253: the three body tables.
BodyParams(body) ==
    [invMass |-> body.invMass, invInertia |-> body.invInertia,
     coords_pos |-> body.coords_pos]

\* Lines 246-248 with a counter that the early-out of pass 0 takes for stale.
BodyImpulseStale(body) ==
    [velocity |-> body.velocity, angularVelocity |-> body.angularVelocity,
     lastIteration |-> 0 - 2]

BodyImpulse(body) ==
    [velocity |-> body.velocity, angularVelocity |-> body.angularVelocity,
     lastIteration |-> 0 - 1]
BodyDisplacement(body) ==
    [velocity |-> body.displacingVelocity,
     angularVelocity |-> body.displacingAngularVelocity,
     lastIteration |-> 0 - 1]

\* Lines 326-333 without the stores of lines 331-332.
FinishBodyVelocityOnly(body, impulse, displacement) ==
    [body EXCEPT !.velocity = impulse.velocity,
                 !.angularVelocity = impulse.angularVelocity]

\* Lines 326-333: the body written back.
FinishBody(body, impulse, displacement) ==
    [body EXCEPT !.velocity = impulse.velocity,
                 !.angularVelocity = impulse.angularVelocity,
                 !.displacingVelocity = displacement.velocity,
                 !.displacingAngularVelocity = displacement.angularVelocity]

\* Lines 337-347: contactJoints after the write-back loop.
FinishJoints(joints, index, packed, N) ==
    LET jointCount == Cardinality(DOMAIN joints)
    IN  [j \in DOMAIN joints |->
            LET From(i) == index[i] = j
                last == CHOOSE i \in 0..(jointCount - 1) :
                            From(i) /\ \A k \in 0..(jointCount - 1) : From(k) => k <= i
            IN  IF \E i \in 0..(jointCount - 1) : From(i)
                THEN LET slot == PackedSlot(last, N)
                         jp == packed[slot[1]][slot[2]]
                     IN  [joints[j] EXCEPT
                            !.normalLimiter.accumulatedImpulse =
                                jp.normalLimiter_accumulatedImpulse,
                            !.normalLimiter.accumulatedDisplacingImpulse =
                                jp.normalLimiter_accumulatedDisplacingImpulse,
                            !.frictionLimiter.accumulatedImpulse =
                                jp.frictionLimiter_accumulatedImpulse]
                ELSE joints[j]]

\* Lines 359-360 taking body1's counter for the larger.
MaxIntFirst(a, b) == a

\* Lines 359-360: std::max.
MaxInt(a, b) == IF a < b THEN b ELSE a

\* Lines 349-361: iterationSum over slots i .. jointCount - 1.
RECURSIVE IterationSum(_, _, _, _, _, _)
IterationSum(i, jointCount, packed, N, impulse, displacement) ==
    IF i < jointCount
    THEN LET slot == PackedSlot(i, N)
             jp == packed[slot[1]][slot[2]]
             bi1 == jp.body1Index
             bi2 == jp.body2Index
         IN  MaxInt(impulse[bi1].lastIteration, impulse[bi2].lastIteration) + 2
             + MaxInt(displacement[bi1].lastIteration, displacement[bi2].lastIteration) + 2
             + IterationSum(i + 1, jointCount, packed, N, impulse, displacement)
    ELSE 0

\* Line 363: float(iterationSum) / float(jointCount).
IterationMetric(iterationSum, jointCount) == FloatDiv(iterationSum, jointCount)

\* Lines 97-105 and 111-119: the passes from iterationIndex0 on, until one
\* is not productive or the count is reached.
RECURSIVE SolveLoop(_, _, _, _, _, _, _, _)
SolveLoop(kind, packed, table, offset, jointCount, N, iterationIndex0, count) ==
    IF iterationIndex0 < count
    THEN LET r == SolvePass(kind, packed, table, offset, jointCount, N, iterationIndex0)
         IN  IF r.productive
             THEN SolveLoop(kind, r.packed, r.table, offset, jointCount, N,
                            iterationIndex0 + 1, count)
             ELSE [packed |-> r.packed, table |-> r.table]
    ELSE [packed |-> packed, table |-> table]

\* Line 122: what SolveFinishSoA writes back and returns.
SolveFinished(bodies0, joints, index, N, solved, displaced) ==
    [bodies |-> [i \in DOMAIN bodies0 |->
                    FinishBody(bodies0[i], solved.table[i], displaced.table[i])],
     contactJoints |-> FinishJoints(joints, index, displaced.packed, N),
     result |-> IterationMetric(
                    IterationSum(0, Cardinality(DOMAIN joints), displaced.packed, N,
                                 solved.table, displaced.table),
                    Cardinality(DOMAIN joints))]

\* Lines 94-119: the impulse loop, then the displacement loop.
SolveLoops(bodies0, joints, idx, N, counts, packed, impulse) ==
    SolveFinished(bodies0, joints, idx.index, N,
        SolveLoop("impulse", packed, impulse, idx.groupOffset,
                  Cardinality(DOMAIN joints), N, 0, counts[1]),
        SolveLoop("displacement",
                  SolveLoop("impulse", packed, impulse, idx.groupOffset,
                            Cardinality(DOMAIN joints), N, 0, counts[1]).packed,
                  [i \in DOMAIN bodies0 |-> BodyDisplacement(bodies0[i])],
                  idx.groupOffset, Cardinality(DOMAIN joints), N, 0, counts[2]))

\* Lines 90-91.
SolvePreStepped(bodies0, joints, idx, N, counts, packed) ==
    SolveLoops(bodies0, joints, idx, N, counts, packed,
        PreStepJointsSoA(packed,
            PreStepJointsSoA(packed, [i \in DOMAIN bodies0 |-> BodyImpulse(bodies0[i])],
                             0, idx.groupOffset, N, N),
            idx.groupOffset, Cardinality(DOMAIN joints), 1, N))

\* Lines 87-88.
SolveRefreshed(bodies0, points, joints, idx, N, counts) ==
    SolvePreStepped(bodies0, joints, idx, N, counts,
        RefreshJointsSoA(
            RefreshJointsSoA(PackJoints(joints, idx.index, N), 0, idx.groupOffset, N, N,
                             [i \in DOMAIN bodies0 |-> BodyParams(bodies0[i])],
                             [i \in DOMAIN bodies0 |-> BodyImpulse(bodies0[i])], points),
            idx.groupOffset, Cardinality(DOMAIN joints), 1, N,
            [i \in DOMAIN bodies0 |-> BodyParams(bodies0[i])],
            [i \in DOMAIN bodies0 |-> BodyImpulse(bodies0[i])], points))

\* SolveJointsSoA<N>, lines 79-123, as a function of what it is called with:
\* the bodies and joints it writes back and the metric it returns.
SolveJointsSoA(bodies0, points, joints, N, counts) ==
    SolveRefreshed(bodies0, points, joints,
                   SolvePrepareIndicesSoA(joints, Cardinality(DOMAIN bodies0), N),
                   N, counts)

-----------------------------------------------------------------------------
(* Inputs.  A scene is a body array, one contact point per joint and the   *)
(* joint list; joint i joins the bodies (a*i + c) mod B and (e*i + f) mod  *)
(* B (moved on by one when the two coincide).                              *)

MaxJoints == 17
MaxBodies == 34
MaxStride == 3
MaxOffset == 2
MaxFrames == 2

Depths == <<Q(1, 2), IntF(1), IntF(2), IntF(3)>>
Normals == <<Vec(Neg(One), Zero), Vec(Zero, One)>>
VelocityPatterns == <<"rest", "approach", "slide", "separate">>

Body1Of(t, i) == (t.a * i + t.c) % t.B
Body2Of(t, i) ==
    LET raw == (t.e * i + t.f) % t.B
    IN  IF raw = Body1Of(t, i) THEN (raw + 1) % t.B ELSE raw

Side(b) == IF b % 2 = 0 THEN 1 ELSE 0 - 1

SceneBody(sc, b) ==
    LET fixed == (sc.static0 /\ b = 0) \/ (sc.static1 /\ b = 1)
        s == Side(b)
    IN  [invMass |-> IF fixed THEN Zero ELSE One,
         invInertia |-> IF fixed THEN Zero ELSE IntF(sc.spin),
         coords_pos |-> Vec(IntF(b), Zero),
         velocity |->
             IF fixed \/ sc.vel = "rest" THEN VZero
             ELSE IF sc.vel = "approach" THEN Vec(IntF(s), Zero)
             ELSE IF sc.vel = "slide" THEN Vec(IntF(s), IntF(-s))
             ELSE Vec(IntF(-s), IntF(s)),
         angularVelocity |-> Zero,
         displacingVelocity |->
             IF fixed \/ sc.vd = 0 THEN VZero ELSE Vec(IntF(s), Zero),
         displacingAngularVelocity |-> Zero]

\* The contact of joint i: body1's anchor is the midpoint of the two body
\* centres, body2's anchor lies depth further along the normal.
SceneContactPoint(sc, i) ==
    LET b1 == Body1Of(sc.t, i)
        b2 == Body2Of(sc.t, i)
        normal == Normals[sc.normal]
        depth == Depths[((sc.depth + i) % Len(Depths)) + 1]
        point1 == Vec(Q(b1 + b2, 2), Zero)
        point2 == VAdd(point1, VScale(normal, depth))
    IN  [delta1 |-> VSub(point1, Vec(IntF(b1), Zero)),
         delta2 |-> VSub(point2, Vec(IntF(b2), Zero)),
         normal |-> normal]

\* A ContactJoint as the collider creates it: nothing accumulated yet.
SceneJoint(sc, i) ==
    [body1Index |-> Body1Of(sc.t, i),
     body2Index |-> Body2Of(sc.t, i),
     collisionIndex |-> i,
     normalLimiter |-> [limiter |-> BlankLimiter, accumulatedImpulse |-> Zero,
                        dstVelocity |-> Zero, dstDisplacingVelocity |-> Zero,
                        accumulatedDisplacingImpulse |-> Zero],
     frictionLimiter |-> [limiter |-> BlankLimiter, accumulatedImpulse |-> Zero]]

\* Joint lists of the grouping specification: every stride and offset.
Topologies ==
    {[J |-> J, B |-> B, a |-> a, c |-> c, e |-> e, f |-> f] :
        J \in 0..MaxJoints, B \in {2, 5, 9, 16, MaxBodies},
        a \in 0..MaxStride, c \in {0}, e \in 0..MaxStride, f \in 0..MaxOffset}

Topology(J, B, a, e) == [J |-> J, B |-> B, a |-> a, c |-> 0, e |-> e, f |-> 1]

\* Joint lists of the solve specification: none, one contact, a chain of two,
\* and pairs with a repeated contact (a full lane block and a tail).
SolveTopologies ==
    {Topology(0, 2, 0, 0), Topology(1, 2, 0, 0), Topology(2, 3, 1, 1),
     Topology(6, 8, 2, 2), Topology(9, 16, 2, 2)}

IterationCounts == {<<0, 0>>, <<1, 1>>, <<3, 2>>, <<10, 0>>, <<0, 20>>}

StillScene(t) ==
    [t |-> t, static0 |-> FALSE, static1 |-> FALSE, spin |-> 0, normal |-> 1, depth |-> 0,
     vel |-> "rest", vd |-> 0]

\* Every combination of ground body, inertia, normal, depth, velocity pattern
\* and displacing velocity.
AllPhysics ==
    {[static0 |-> st, static1 |-> FALSE, spin |-> sp, normal |-> n, depth |-> d,
      vel |-> VelocityPatterns[v], vd |-> vd] :
        st \in BOOLEAN, sp \in {0, 1}, n \in {1, 2},
        d \in 0..(Len(Depths) - 1), v \in 1..Len(VelocityPatterns), vd \in {0, 1}}

\* A selection in which every ground body, normal and velocity pattern meet:
\* the ground body comes with inertia, the depth follows the velocity pattern.
FewPhysics ==
    {[static0 |-> st, static1 |-> FALSE, spin |-> IF st THEN 1 ELSE 0, normal |-> n,
      depth |-> v - 1, vel |-> VelocityPatterns[v], vd |-> (n + v) % 2] :
        st \in BOOLEAN, n \in {1, 2}, v \in 1..Len(VelocityPatterns)}

\* Bodies 0 and 1 both without mass and inertia: the joint between them has
\* no composite mass.
PinnedPhysics ==
    {[static0 |-> TRUE, static1 |-> TRUE, spin |-> 1, normal |-> n, depth |-> d,
      vel |-> "separate", vd |-> 1] :
        n \in {1, 2}, d \in 0..(Len(Depths) - 1)}

PinnedTopologies == {Topology(1, 2, 0, 0), Topology(2, 3, 1, 1)}

SceneOf(t, ph) ==
    [t |-> t, static0 |-> ph.static0, static1 |-> ph.static1, spin |-> ph.spin,
     normal |-> ph.normal,
     depth |-> ph.depth, vel |-> ph.vel, vd |-> ph.vd]

-----------------------------------------------------------------------------
(* The state machine: the driver's call of SolveJointsSoA<N> and the       *)
(* phases of that call.                                                    *)

JointCount == Cardinality(DOMAIN contactJoints)
BodiesCount == Cardinality(DOMAIN bodies)

NoTable == <<>>
NoResult == [class |-> "none", value |-> 0]

InitScene(sc, N, counts) ==
    /\ bodies = [b \in 0..(sc.t.B - 1) |-> SceneBody(sc, b)]
    /\ contactPoints = [i \in 0..(sc.t.J - 1) |-> SceneContactPoint(sc, i)]
    /\ contactJoints = [i \in 0..(sc.t.J - 1) |-> SceneJoint(sc, i)]
    /\ laneWidth = N
    /\ contactIterationsCount = counts[1]
    /\ penetrationIterationsCount = counts[2]
    /\ solveBodiesParams = NoTable
    /\ solveBodiesImpulse = NoTable
    /\ solveBodiesDisplacement = NoTable
    /\ joint_index = NoTable
    /\ joint_packed = NoTable
    /\ groupOffset = 0
    /\ iterationIndex = 0
    /\ pc = "call"
    /\ result = NoResult
    /\ entry = [bodies |-> <<>>, contactJoints |-> <<>>,
                previous |-> [counts |-> <<0, 0>>, result |-> NoResult]]
    /\ frame = 0

\* One contact in every physical variation solved scalar, every topology in
\* the selected variations solved at each lane width, and the joints between
\* two bodies without mass.
Init ==
    \/ \E ph \in AllPhysics, counts \in IterationCounts :
          InitScene(SceneOf(Topology(1, 2, 0, 0), ph), 1, counts)
    \/ \E t \in SolveTopologies, ph \in FewPhysics, N \in LaneWidths,
          counts \in IterationCounts :
          InitScene(SceneOf(t, ph), N, counts)
    \/ \E t \in PinnedTopologies, ph \in PinnedPhysics, N \in {1, 4},
          counts \in IterationCounts :
          InitScene(SceneOf(t, ph), N, counts)

\* The calls of the loop specification: a chain and a lane block with a
\* tail, with counts that end the loops by the break and by the count.
LoopTopologies == {Topology(2, 3, 1, 1), Topology(6, 8, 2, 2)}
LoopCounts == {<<10, 3>>, <<2, 2>>, <<1, 0>>}

InitLoops ==
    \E t \in LoopTopologies, ph \in {f \in FewPhysics : ~f.static0}, N \in {1, 4},
       counts \in LoopCounts :
       InitScene(SceneOf(t, ph), N, counts)

InitGroup ==
    \E t \in Topologies, N \in LaneWidths : InitScene(StillScene(t), N, <<0, 0>>)

\* SolvePrepareSoA, lines 225-317, called at line 82.
SolvePrepareSoA ==
    /\ pc = "call"
    /\ LET idx == SolvePrepareIndicesSoA(contactJoints, BodiesCount, laneWidth)
       IN  /\ joint_index' = idx.index
           /\ groupOffset' = idx.groupOffset
           /\ joint_packed' = PackJoints(contactJoints, idx.index, laneWidth)
    /\ solveBodiesParams' = [i \in DOMAIN bodies |-> BodyParams(bodies[i])]
    /\ solveBodiesImpulse' = [i \in DOMAIN bodies |-> BodyImpulse(bodies[i])]
    /\ solveBodiesDisplacement' = [i \in DOMAIN bodies |-> BodyDisplacement(bodies[i])]
    /\ entry' = [bodies |-> bodies, contactJoints |-> contactJoints,
                 previous |-> entry.previous]
    /\ frame' = frame + 1
    /\ pc' = "refresh"
    /\ UNCHANGED <<bodies, contactPoints, contactJoints, laneWidth,
                   contactIterationsCount, penetrationIterationsCount,
                   iterationIndex, result>>

\* Lines 87-88: the wide Refresh of the prefix, the scalar one of the tail.
RefreshJoints ==
    /\ pc = "refresh"
    /\ LET wide == RefreshJointsSoA(joint_packed, 0, groupOffset, laneWidth, laneWidth,
                                    solveBodiesParams, solveBodiesImpulse, contactPoints)
       IN  joint_packed' = RefreshJointsSoA(wide, groupOffset, JointCount, 1, laneWidth,
                                    solveBodiesParams, solveBodiesImpulse, contactPoints)
    /\ pc' = "prestep"
    /\ UNCHANGED <<bodies, contactPoints, contactJoints, laneWidth,
                   contactIterationsCount, penetrationIterationsCount,
                   solveBodiesParams, solveBodiesImpulse, solveBodiesDisplacement,
                   joint_index, groupOffset, iterationIndex, result, entry, frame>>

\* Lines 90-91.
PreStepJoints ==
    /\ pc = "prestep"
    /\ LET wide == PreStepJointsSoA(joint_packed, solveBodiesImpulse, 0, groupOffset,
                                    laneWidth, laneWidth)
       IN  solveBodiesImpulse' = PreStepJointsSoA(joint_packed, wide, groupOffset,
                                                  JointCount, 1, laneWidth)
    /\ pc' = "impulse"
    /\ iterationIndex' = 0
    /\ UNCHANGED <<bodies, contactPoints, contactJoints, laneWidth,
                   contactIterationsCount, penetrationIterationsCount,
                   solveBodiesParams, solveBodiesDisplacement, joint_index,
                   joint_packed, groupOffset, result, entry, frame>>

\* Lines 97-105: one iteration of the impulse loop; the loop is left by the
\* break of line 104.
ImpulsePass ==
    /\ pc = "impulse"
    /\ iterationIndex < contactIterationsCount
    /\ LET r == SolvePass("impulse", joint_packed, solveBodiesImpulse, groupOffset,
                          JointCount, laneWidth, iterationIndex)
       IN  /\ joint_packed' = r.packed
           /\ solveBodiesImpulse' = r.table
           /\ IF r.productive
              THEN pc' = "impulse" /\ iterationIndex' = iterationIndex + 1
              ELSE pc' = "displacement" /\ iterationIndex' = 0
    /\ UNCHANGED <<bodies, contactPoints, contactJoints, laneWidth,
                   contactIterationsCount, penetrationIterationsCount,
                   solveBodiesParams, solveBodiesDisplacement, joint_index,
                   groupOffset, result, entry, frame>>

\* Line 97: the loop condition fails.
ImpulseLoopEnd ==
    /\ pc = "impulse"
    /\ ~(iterationIndex < contactIterationsCount)
    /\ pc' = "displacement"
    /\ iterationIndex' = 0
    /\ UNCHANGED <<bodies, contactPoints, contactJoints, laneWidth,
                   contactIterationsCount, penetrationIterationsCount,
                   solveBodiesParams, solveBodiesImpulse, solveBodiesDisplacement,
                   joint_index, joint_packed, groupOffset, result, entry, frame>>

\* Lines 111-119: one iteration of the displacement loop.
DisplacementPass ==
    /\ pc = "displacement"
    /\ iterationIndex < penetrationIterationsCount
    /\ LET r == SolvePass("displacement", joint_packed, solveBodiesDisplacement,
                          groupOffset, JointCount, laneWidth, iterationIndex)
       IN  /\ joint_packed' = r.packed
           /\ solveBodiesDisplacement' = r.table
           /\ IF r.productive
              THEN pc' = "displacement" /\ iterationIndex' = iterationIndex + 1
              ELSE pc' = "finish" /\ iterationIndex' = iterationIndex
    /\ UNCHANGED <<bodies, contactPoints, contactJoints, laneWidth,
                   contactIterationsCount, penetrationIterationsCount,
                   solveBodiesParams, solveBodiesImpulse, joint_index,
                   groupOffset, result, entry, frame>>

\* Line 111: the loop condition fails.
DisplacementLoopEnd ==
    /\ pc = "displacement"
    /\ ~(iterationIndex < penetrationIterationsCount)
    /\ pc' = "finish"
    /\ UNCHANGED <<bodies, contactPoints, contactJoints, laneWidth,
                   contactIterationsCount, penetrationIterationsCount,
                   solveBodiesParams, solveBodiesImpulse, solveBodiesDisplacement,
                   joint_index, joint_packed, groupOffset, iterationIndex,
                   result, entry, frame>>

\* SolveFinishSoA, lines 320-364, called at line 122.
SolveFinishSoA ==
    /\ pc = "finish"
    /\ bodies' = [i \in DOMAIN bodies |->
                    FinishBody(bodies[i], solveBodiesImpulse[i], solveBodiesDisplacement[i])]
    /\ contactJoints' = FinishJoints(contactJoints, joint_index, joint_packed, laneWidth)
    /\ result' = IterationMetric(
                     IterationSum(0, JointCount, joint_packed, laneWidth,
                                  solveBodiesImpulse, solveBodiesDisplacement),
                     JointCount)
    /\ pc' = "done"
    /\ UNCHANGED <<contactPoints, laneWidth, contactIterationsCount,
                   penetrationIterationsCount, solveBodiesParams, solveBodiesImpulse,
                   solveBodiesDisplacement, joint_index, joint_packed, groupOffset,
                   iterationIndex, entry, frame>>

\* The driver calls the solver again on the bodies and joints it got back,
\* with the same lane width and new iteration counts.
SolveAgain ==
    /\ pc = "done"
    /\ frame < MaxFrames
    /\ \E counts \in IterationCounts :
          /\ contactIterationsCount' = counts[1]
          /\ penetrationIterationsCount' = counts[2]
    /\ entry' = [entry EXCEPT !.previous =
                     [counts |-> <<contactIterationsCount, penetrationIterationsCount>>,
                      result |-> result]]
    /\ pc' = "call"
    /\ UNCHANGED <<bodies, contactPoints, contactJoints, laneWidth,
                   solveBodiesParams, solveBodiesImpulse, solveBodiesDisplacement,
                   joint_index, joint_packed, groupOffset, iterationIndex,
                   result, frame>>

Next ==
    \/ SolvePrepareSoA
    \/ RefreshJoints
    \/ PreStepJoints
    \/ ImpulsePass
    \/ ImpulseLoopEnd
    \/ DisplacementPass
    \/ DisplacementLoopEnd
    \/ SolveFinishSoA
    \/ SolveAgain

Spec == Init /\ [][Next]_vars

NextGroup == SolvePrepareSoA

SpecGroup == InitGroup /\ [][NextGroup]_vars

\* A step is possible: a call is under way or the driver has a frame left.
\* This is ENABLED <<Next>>_vars as a state predicate.
Running == pc # "done" \/ frame < MaxFrames

\* SolveJointsSoA is sequential code that nothing preempts and the driver
\* calls it every frame: a step that can be taken is taken.  This is weak
\* fairness of Next, WF_vars(Next), written out with Running for the
\* enabling condition.
FairSpec ==
    InitLoops /\ [][Next]_vars /\ ([]<>(~Running) \/ []<><<Next>>_vars)

-----------------------------------------------------------------------------
(* Grouping properties, checked under SpecGroup.                           *)

\* The joint that slot i of the grouped order stands for.
JointAt(i) == contactJoints[joint_index[i]]

\* The body indices of the joints in slots first .. first + N - 1.
BlockBodies(first, N) ==
    UNION {{JointAt(i).body1Index, JointAt(i).body2Index} :
              i \in first..(first + N - 1)}

Prepared == pc # "call"

\* C1: after SolvePrepareIndicesSoA with lane width 4 or 8, the 2N body
\* indices of the N joints of every lane block below groupOffset are pairwise
\* distinct.
GroupingDisjoint ==
    (Prepared /\ laneWidth \in {4, 8}) =>
        \A k \in 0..JointCount :
            k * laneWidth < groupOffset =>
                Cardinality(BlockBodies(k * laneWidth, laneWidth)) = 2 * laneWidth

\* C1 witness: two full blocks were gathered out of order, with joints left
\* over for the tail.
GroupingDisjointWitness ==
    /\ Prepared
    /\ laneWidth = 4
    /\ groupOffset >= 8
    /\ groupOffset < JointCount
    /\ \E i \in 0..(groupOffset - 1) : joint_index[i] # i
    /\ \A k \in 0..1 : Cardinality(BlockBodies(k * 4, 4)) = 8

IndexPermutationPacked ==
    Prepared =>
        /\ DOMAIN joint_index = 0..(JointCount - 1)
        /\ \A j \in 0..(JointCount - 1) :
              Cardinality({i \in 0..(JointCount - 1) : joint_index[i] = j}) = 1
        /\ \A i \in 0..(JointCount - 1) :
              LET jp == joint_packed[i \div laneWidth][i % laneWidth]
              IN  /\ jp # Unset
                  /\ jp.body1Index = JointAt(i).body1Index
                  /\ jp.body2Index = JointAt(i).body2Index
                  /\ jp.contactPointIndex = JointAt(i).collisionIndex

\* C3 witness: the swap-pop compaction reordered the joints and the tail fill
\* placed some.
IndexPermutationPackedWitness ==
    /\ Prepared
    /\ laneWidth = 4
    /\ JointCount >= 9
    /\ groupOffset = 4
    /\ \E i \in 0..3 : joint_index[i] > 4
    /\ joint_packed[2][0].body1Index = JointAt(8).body1Index

\* Every body takes part in at most one joint.
PairwiseBodyDisjoint ==
    \A i, j \in DOMAIN contactJoints :
        i # j => {contactJoints[i].body1Index, contactJoints[i].body2Index}
                 \cap {contactJoints[j].body1Index, contactJoints[j].body2Index} = {}

\* C7: a pairwise body-disjoint joint list whose length is a multiple of N is
\* grouped entirely, for N in {4, 8}: groupOffset = jointCount.
DisjointListFullyGrouped ==
    (Prepared /\ laneWidth \in {4, 8} /\ PairwiseBodyDisjoint
        /\ JointCount % laneWidth = 0) =>
        groupOffset = JointCount

\* C7 witness: sixteen disjoint joints grouped into two blocks of eight.
DisjointListFullyGroupedWitness ==
    /\ Prepared
    /\ laneWidth = 8
    /\ PairwiseBodyDisjoint
    /\ JointCount = 16
    /\ groupOffset = 16

-----------------------------------------------------------------------------
(* Solve properties, checked under Spec.                                   *)

\* The packed lane of slot i: block i / N, lane i mod N.
PackedAt(i) == joint_packed[i \div laneWidth][i % laneWidth]

Slots == 0..(JointCount - 1)

\* 10 |friction| <= 3 normal + 10 * 1e-5, in millionths.
InCone(friction, normal) == 10 * AbsInt(friction) <= 3 * normal + 100

\* C4: every joint satisfies |friction.accumulated| <= 0.3 *
\* normal.accumulated + 1e-5 after every impulse pass and after the solve,
\* whether its block was solved, skipped, or only warm-started.
FrictionCone ==
    /\ \A j \in DOMAIN contactJoints :
          InCone(contactJoints[j].frictionLimiter.accumulatedImpulse,
                 contactJoints[j].normalLimiter.accumulatedImpulse)
    /\ frame > 0 =>
          \A i \in Slots :
             InCone(PackedAt(i).frictionLimiter_accumulatedImpulse,
                    PackedAt(i).normalLimiter_accumulatedImpulse)

\* C4 witness: an impulse pass left a joint's friction on the cone.
FrictionConeWitness ==
    /\ pc = "impulse"
    /\ iterationIndex > 0
    /\ \E i \in Slots :
          /\ PackedAt(i).normalLimiter_accumulatedImpulse > 0
          /\ PackedAt(i).frictionLimiter_accumulatedImpulse # 0
          /\ 10 * AbsInt(PackedAt(i).frictionLimiter_accumulatedImpulse)
                >= 3 * PackedAt(i).normalLimiter_accumulatedImpulse - 100

\* C5: normal.accumulated >= 0 and normal.accumulatedDisplacing >= 0 for
\* every joint after Refresh, after each impulse pass, after each
\* displacement pass and after Finish.
NormalNonTensile ==
    /\ \A j \in DOMAIN contactJoints :
          /\ contactJoints[j].normalLimiter.accumulatedImpulse >= 0
          /\ contactJoints[j].normalLimiter.accumulatedDisplacingImpulse >= 0
    /\ frame > 0 =>
          \A i \in Slots :
             /\ PackedAt(i).normalLimiter_accumulatedImpulse >= 0
             /\ PackedAt(i).normalLimiter_accumulatedDisplacingImpulse >= 0

\* C5 witness: a warm-started joint whose accumulated normal impulse an
\* impulse pass took back down.
NormalNonTensileWitness ==
    /\ pc = "displacement"
    /\ contactIterationsCount > 0
    /\ \E i \in Slots :
          /\ entry.contactJoints[joint_index[i]].normalLimiter.accumulatedImpulse > 0
          /\ PackedAt(i).normalLimiter_accumulatedImpulse
                < entry.contactJoints[joint_index[i]].normalLimiter.accumulatedImpulse

\* C6: with an empty joint list the solve returns the iteration metric 0.0.
EmptyListMetricZero ==
    (pc = "done" /\ JointCount = 0) => result = Finite(Zero)

\* The penetration depth of joint j's contact, as line 682 computes it.
ContactDepth(j) ==
    LET cp == contactPoints[contactJoints[j].collisionIndex]
        point1 == VAdd(cp.delta1, bodies[contactJoints[j].body1Index].coords_pos)
        point2 == VAdd(cp.delta2, bodies[contactJoints[j].body2Index].coords_pos)
    IN  Dot(VSub(point2, point1), cp.normal)

\* |a - b| <= 1e-3.
Near(a, b) == AbsInt(a - b) <= 1000

\* The head-on scene: A (body1) at x = 0 moving at (+1, 0) and B (body2) at
\* x = 1 moving at (-1, 0), equal masses, one contact with normal (-1, 0) and
\* nothing accumulated, after a solve with contactIters = 10, posIters = 0.
HeadOnSolved ==
    /\ pc = "done"
    /\ JointCount = 1
    /\ BodiesCount = 2
    /\ contactIterationsCount = 10
    /\ penetrationIterationsCount = 0
    /\ contactJoints[0].body1Index = 0
    /\ contactJoints[0].body2Index = 1
    /\ bodies[0].coords_pos = Vec(Zero, Zero)
    /\ bodies[1].coords_pos = Vec(One, Zero)
    /\ entry.bodies[0].velocity = Vec(One, Zero)
    /\ entry.bodies[1].velocity = Vec(Neg(One), Zero)
    /\ entry.bodies[0].invMass = One
    /\ entry.bodies[1].invMass = One
    /\ contactPoints[0].normal = Vec(Neg(One), Zero)
    /\ entry.contactJoints[0].normalLimiter.accumulatedImpulse = Zero
    /\ entry.contactJoints[0].frictionLimiter.accumulatedImpulse = Zero

\* The closing speed the solve leaves to each body: maxPenetrationVelocity / 2
\* while the contact is shallower than deltaDepth, none otherwise.
HeadOnRest == IF Less(ContactDepth(0), deltaDepth) THEN Q(5, 100) ELSE Zero

\* C8 (amended): the head-on solve is inelastic.  Both bodies are stopped,
\* up to the allowed penetration velocity: A.v = (+0.05, 0) and B.v =
\* (-0.05, 0) for a depth below 1, A.v = B.v = (0, 0) for a depth of 1 or
\* more, within 1e-3.
HeadOnInelastic ==
    HeadOnSolved =>
        /\ Near(bodies[0].velocity.x, HeadOnRest)
        /\ Near(bodies[0].velocity.y, Zero)
        /\ Near(bodies[1].velocity.x, Neg(HeadOnRest))
        /\ Near(bodies[1].velocity.y, Zero)

\* C8 witness: the head-on solve of a shallow contact has slowed both bodies
\* to 0.05.
HeadOnInelasticWitness ==
    /\ HeadOnSolved
    /\ Less(ContactDepth(0), deltaDepth)
    /\ bodies[0].velocity = Vec(Q(5, 100), Zero)
    /\ bodies[1].velocity = Vec(Neg(Q(5, 100)), Zero)
    /\ contactJoints[0].normalLimiter.accumulatedImpulse = Q(95, 100)

\* C8 as stated: the head-on solve exchanges the velocities, A.v = (-1, 0) and
\* B.v = (+1, 0) within 1e-3.
HeadOnExchange ==
    HeadOnSolved =>
        /\ Near(bodies[0].velocity.x, Neg(One))
        /\ Near(bodies[0].velocity.y, Zero)
        /\ Near(bodies[1].velocity.x, One)
        /\ Near(bodies[1].velocity.y, Zero)

\* A single contact no deeper than 2 * deltaDepth between bodies that entered
\* with no displacing velocity, solved with contactIters = 0, posIters = 20.
ShallowContactCall ==
    /\ frame > 0
    /\ JointCount = 1
    /\ contactIterationsCount = 0
    /\ penetrationIterationsCount = 20
    /\ LessEq(ContactDepth(0), Mul(IntF(2), deltaDepth))
    /\ \A b \in DOMAIN entry.bodies :
          /\ entry.bodies[b].displacingVelocity = VZero
          /\ entry.bodies[b].displacingAngularVelocity = Zero

\* C9: in that call the refreshed dstDisplacingVelocity is 0, the
\* displacement passes apply no impulse (vd and omega_d stay zero), and the
\* joint's accumulatedDisplacing is exactly 0 after the solve.
ShallowContactNotCorrected ==
    /\ (ShallowContactCall /\ pc \in {"prestep", "impulse", "displacement", "finish"}) =>
          /\ PackedAt(0).normalLimiter_dstDisplacingVelocity = Zero
          /\ PackedAt(0).normalLimiter_accumulatedDisplacingImpulse = Zero
          /\ \A b \in DOMAIN solveBodiesDisplacement :
                /\ solveBodiesDisplacement[b].velocity = VZero
                /\ solveBodiesDisplacement[b].angularVelocity = Zero
    /\ (ShallowContactCall /\ pc = "done") =>
          /\ contactJoints[0].normalLimiter.accumulatedDisplacingImpulse = Zero
          /\ \A b \in DOMAIN bodies :
                /\ bodies[b].displacingVelocity = VZero
                /\ bodies[b].displacingAngularVelocity = Zero

\* C9 witness: the call with a contact of depth 0.5 has returned.
ShallowContactNotCorrectedWitness ==
    /\ ShallowContactCall
    /\ pc = "done"
    /\ ContactDepth(0) = Q(1, 2)
    /\ contactJoints[0].normalLimiter.accumulatedDisplacingImpulse = Zero

\* The warm-start contribution of slot i to body b: cMass * accumulated of the
\* normal and the friction limiter, with the impulses the joint entered with.
WarmStartOf(i, b) ==
    LET jp == PackedAt(i)
        n == entry.contactJoints[joint_index[i]].normalLimiter.accumulatedImpulse
        f == entry.contactJoints[joint_index[i]].frictionLimiter.accumulatedImpulse
    IN  IF jp.body1Index = b
        THEN [linear |-> VAdd(VScale(jp.normalLimiter.compMass1_linear, n),
                              VScale(jp.frictionLimiter.compMass1_linear, f)),
              angular |-> Add(Mul(jp.normalLimiter.compMass1_angular, n),
                              Mul(jp.frictionLimiter.compMass1_angular, f))]
        ELSE IF jp.body2Index = b
        THEN [linear |-> VAdd(VScale(jp.normalLimiter.compMass2_linear, n),
                              VScale(jp.frictionLimiter.compMass2_linear, f)),
              angular |-> Add(Mul(jp.normalLimiter.compMass2_angular, n),
                              Mul(jp.frictionLimiter.compMass2_angular, f))]
        ELSE [linear |-> VZero, angular |-> Zero]

\* The sum of the warm-start contributions of slots i .. jointCount - 1.
RECURSIVE WarmStartSum(_, _)
WarmStartSum(i, b) ==
    IF i < JointCount
    THEN [linear |-> VAdd(WarmStartOf(i, b).linear, WarmStartSum(i + 1, b).linear),
          angular |-> Add(WarmStartOf(i, b).angular, WarmStartSum(i + 1, b).angular)]
    ELSE [linear |-> VZero, angular |-> Zero]

NoIterationsSolved ==
    /\ pc = "done"
    /\ contactIterationsCount = 0
    /\ penetrationIterationsCount = 0

\* C10: a solve with contactIters = 0 and posIters = 0 changes v and omega of
\* each body by the warm-start sum over its joints only, leaves vd and
\* omega_d unchanged, leaves all velocities unchanged when nothing was
\* accumulated, and writes the accumulated normal and friction impulses back
\* unchanged.
NoIterationsOnlyWarmStart ==
    NoIterationsSolved =>
        /\ \A b \in DOMAIN bodies :
              /\ bodies[b].velocity =
                    VAdd(entry.bodies[b].velocity, WarmStartSum(0, b).linear)
              /\ bodies[b].angularVelocity =
                    Add(entry.bodies[b].angularVelocity, WarmStartSum(0, b).angular)
              /\ bodies[b].displacingVelocity = entry.bodies[b].displacingVelocity
              /\ bodies[b].displacingAngularVelocity =
                    entry.bodies[b].displacingAngularVelocity
        /\ (\A j \in DOMAIN contactJoints :
               /\ entry.contactJoints[j].normalLimiter.accumulatedImpulse = Zero
               /\ entry.contactJoints[j].frictionLimiter.accumulatedImpulse = Zero)
           => \A b \in DOMAIN bodies :
                 /\ bodies[b].velocity = entry.bodies[b].velocity
                 /\ bodies[b].angularVelocity = entry.bodies[b].angularVelocity
        /\ \A j \in DOMAIN contactJoints :
              /\ contactJoints[j].normalLimiter.accumulatedImpulse =
                    entry.contactJoints[j].normalLimiter.accumulatedImpulse
              /\ contactJoints[j].frictionLimiter.accumulatedImpulse =
                    entry.contactJoints[j].frictionLimiter.accumulatedImpulse

\* C10 witness: such a solve of joints that entered with normal and friction
\* impulses, which the warm start has turned into velocity.
NoIterationsOnlyWarmStartWitness ==
    /\ NoIterationsSolved
    /\ JointCount > 1
    /\ \E j \in DOMAIN contactJoints :
          /\ entry.contactJoints[j].normalLimiter.accumulatedImpulse > Zero
          /\ entry.contactJoints[j].frictionLimiter.accumulatedImpulse # Zero
    /\ \E b \in DOMAIN bodies : bodies[b].velocity # entry.bodies[b].velocity

-----------------------------------------------------------------------------
(* C11: warm start.                                                        *)

\* The call that just finished ran on what the call before wrote back, with
\* the iteration counts of the call before.
SecondRunSameCounts ==
    /\ pc = "done"
    /\ frame >= 2
    /\ JointCount >= 1
    /\ entry.previous.counts = <<contactIterationsCount, penetrationIterationsCount>>

\* C11: when solve runs twice in a row on the same bodies, contact points and
\* joints with the same iteration counts, the second run starting from the
\* velocities and accumulated impulses the first wrote back, the metric of
\* the second run is at most the metric of the first.
WarmStartMetricMonotone ==
    SecondRunSameCounts => LessEq(result.value, entry.previous.result.value)

-----------------------------------------------------------------------------
(* C12: the lane widths against each other.                                *)

\* The scalar variant called with what the finished call was called with.
ScalarSolve ==
    SolveJointsSoA(entry.bodies, contactPoints, entry.contactJoints, 1,
                   <<contactIterationsCount, penetrationIterationsCount>>)

\* The finished call as the function computes it (the phases of the state
\* machine compose to SolveJointsSoA).
PhasesAreSolveJointsSoA ==
    pc = "done" =>
        SolveJointsSoA(entry.bodies, contactPoints, entry.contactJoints, laneWidth,
                       <<contactIterationsCount, penetrationIterationsCount>>)
            = [bodies |-> bodies, contactJoints |-> contactJoints, result |-> result]

SameVelocities(b, c) ==
    /\ Near(b.velocity.x, c.velocity.x)
    /\ Near(b.velocity.y, c.velocity.y)
    /\ Near(b.angularVelocity, c.angularVelocity)

SameImpulses(j, k) ==
    /\ Near(j.normalLimiter.accumulatedImpulse, k.normalLimiter.accumulatedImpulse)
    /\ Near(j.frictionLimiter.accumulatedImpulse, k.frictionLimiter.accumulatedImpulse)

\* C12: for the same bodies, contact points, joints and iteration counts the
\* variants of lane width 4 and 8 leave the body velocities and the joints'
\* accumulated impulses that the variant of lane width 1 leaves (here: within
\* 1e-3, which is more than the rounding of the products can add up to).
LaneWidthsAgree ==
    (pc = "done" /\ laneWidth # 1) =>
        LET scalar == ScalarSolve
        IN  /\ \A b \in DOMAIN bodies : SameVelocities(bodies[b], scalar.bodies[b])
            /\ \A j \in DOMAIN contactJoints :
                  SameImpulses(contactJoints[j], scalar.contactJoints[j])

-----------------------------------------------------------------------------
(* C13: the size of the packed table.                                      *)

\* ceil(jointCount / N).
LaneBlocksNeeded(jointCount, N) == (jointCount + N - 1) \div N

\* C13: after Prepare with lane width N the packed joint table holds exactly
\* ceil(jointCount / N) lane blocks.
PackedTableLength ==
    Prepared => Cardinality(DOMAIN joint_packed) = LaneBlocksNeeded(JointCount, laneWidth)

-----------------------------------------------------------------------------
(* C14: a joint without composite mass.                                    *)

Massless(b) == solveBodiesParams[b].invMass = Zero /\ solveBodiesParams[b].invInertia = Zero

\* Slot i holds a joint of two bodies without mass and inertia: the
\* composite mass of both of its limiters is 0.
NoCompositeMass(i) ==
    /\ Massless(PackedAt(i).body1Index)
    /\ Massless(PackedAt(i).body2Index)

Refreshed == pc \in {"prestep", "impulse", "displacement", "finish", "done"}

\* The velocities of body b are those the call was entered with.
VelocitiesAsEntered(b) ==
    /\ solveBodiesImpulse[b].velocity = entry.bodies[b].velocity
    /\ solveBodiesImpulse[b].angularVelocity = entry.bodies[b].angularVelocity
    /\ solveBodiesDisplacement[b].velocity = entry.bodies[b].displacingVelocity
    /\ solveBodiesDisplacement[b].angularVelocity = entry.bodies[b].displacingAngularVelocity

\* C14: when the composite mass of a joint's limiters is 0 (both bodies have
\* invMass = 0 and invInertia = 0), Refresh sets compInvMass to 0, and no
\* impulse or displacement update of the joint changes anything: both bodies
\* keep their velocities, the joint keeps the accumulated normal and friction
\* impulses it was entered with and the displacing impulse Refresh left.
ZeroCompositeMassNoOp ==
    Refreshed =>
        \A i \in Slots :
            NoCompositeMass(i) =>
                /\ PackedAt(i).normalLimiter.compInvMass = Zero
                /\ PackedAt(i).frictionLimiter.compInvMass = Zero
                /\ VelocitiesAsEntered(PackedAt(i).body1Index)
                /\ VelocitiesAsEntered(PackedAt(i).body2Index)
                /\ PackedAt(i).normalLimiter_accumulatedImpulse
                     = entry.contactJoints[joint_index[i]].normalLimiter.accumulatedImpulse
                /\ PackedAt(i).frictionLimiter_accumulatedImpulse
                     = entry.contactJoints[joint_index[i]].frictionLimiter.accumulatedImpulse
                /\ PackedAt(i).normalLimiter_accumulatedDisplacingImpulse = Zero

\* A deep joint without composite mass (Refresh asks for a displacing
\* velocity) after both loops ran, the impulse loop productively for the
\* other joint of the chain.
ZeroCompositeMassWitness ==
    /\ pc = "finish"
    /\ contactIterationsCount > 0
    /\ penetrationIterationsCount > 0
    /\ \E i \in Slots :
          /\ NoCompositeMass(i)
          /\ ContactDepth(joint_index[i]) = IntF(3)
          /\ Greater(PackedAt(i).normalLimiter_dstDisplacingVelocity, Zero)
    /\ \E b \in DOMAIN bodies : solveBodiesImpulse[b].lastIteration >= 0

-----------------------------------------------------------------------------
(* C15: the iteration metric.                                              *)

Larger(a, b) == IF a >= b THEN a ELSE b

\* What joint j adds to the sum: the larger impulse counter of its two
\* bodies plus 2, and the larger displacement counter plus 2.
JointIterations(j) ==
    Larger(solveBodiesImpulse[contactJoints[j].body1Index].lastIteration,
           solveBodiesImpulse[contactJoints[j].body2Index].lastIteration) + 2
    + Larger(solveBodiesDisplacement[contactJoints[j].body1Index].lastIteration,
             solveBodiesDisplacement[contactJoints[j].body2Index].lastIteration) + 2

RECURSIVE IterationsBelow(_)
IterationsBelow(n) == IF n = 0 THEN 0 ELSE JointIterations(n - 1) + IterationsBelow(n - 1)

\* C15: Finish returns the sum over all joints of [max(lastIteration of
\* body1, body2) + 2] + [max(lastDisplacementIteration of body1, body2) + 2],
\* divided by jointCount (to the nearest millionth); with jointCount >= 1 it
\* lies between 2 and contactIters + posIters + 2.
MetricIsMeanIterations ==
    (pc = "done" /\ JointCount >= 1) =>
        /\ result.class = "finite"
        /\ AbsInt(result.value * JointCount - Scale * IterationsBelow(JointCount))
             <= JointCount
        /\ 2 * Scale <= result.value
        /\ result.value
             <= (contactIterationsCount + penetrationIterationsCount + 2) * Scale

\* Several joints, one of them between bodies with different counters,
\* after a productive pass.
MetricIsMeanIterationsWitness ==
    /\ pc = "done"
    /\ JointCount >= 2
    /\ result.class = "finite"
    /\ result.value > 2 * Scale
    /\ \E j \in DOMAIN contactJoints :
          solveBodiesImpulse[contactJoints[j].body1Index].lastIteration
            < solveBodiesImpulse[contactJoints[j].body2Index].lastIteration

-----------------------------------------------------------------------------
(* C16: grouping at lane width 1.                                          *)

\* C16: with lane width 1 the grouping is the identity, joint_index[i] = i
\* for every i below jointCount, and the returned groupOffset is jointCount,
\* so that the scalar tail [groupOffset, jointCount) is empty.
ScalarGroupingIdentity ==
    (Prepared /\ laneWidth = 1) =>
        /\ DOMAIN joint_index = 0..(JointCount - 1)
        /\ \A i \in 0..(JointCount - 1) : joint_index[i] = i
        /\ groupOffset = JointCount
        /\ {i \in 0..(JointCount - 1) : i >= groupOffset} = {}

\* Lane width 1 on a list of several joints that share bodies.
ScalarGroupingIdentityWitness ==
    /\ Prepared
    /\ laneWidth = 1
    /\ JointCount >= 3
    /\ ~PairwiseBodyDisjoint

-----------------------------------------------------------------------------
(* C17: what the solver does to the caller's arrays.                       *)

\* Body b with the four velocities of the two tables, nothing else changed.
BodyWrittenBack(b) ==
    [bodies[b] EXCEPT
        !.velocity = solveBodiesImpulse[b].velocity,
        !.angularVelocity = solveBodiesImpulse[b].angularVelocity,
        !.displacingVelocity = solveBodiesDisplacement[b].velocity,
        !.displacingAngularVelocity = solveBodiesDisplacement[b].angularVelocity]

\* The joint of slot i with the three accumulated impulses of the slot,
\* nothing else changed.
JointWrittenBack(i) ==
    [JointAt(i) EXCEPT
        !.normalLimiter.accumulatedImpulse =
            PackedAt(i).normalLimiter_accumulatedImpulse,
        !.normalLimiter.accumulatedDisplacingImpulse =
            PackedAt(i).normalLimiter_accumulatedDisplacingImpulse,
        !.frictionLimiter.accumulatedImpulse =
            PackedAt(i).frictionLimiter_accumulatedImpulse]

CallerArraysStep ==
    /\ pc \in {"call", "refresh", "prestep", "impulse", "displacement"} =>
          /\ bodies' = bodies
          /\ contactJoints' = contactJoints
    /\ pc = "finish" =>
          /\ DOMAIN bodies' = DOMAIN bodies
          /\ \A b \in DOMAIN bodies : bodies'[b] = BodyWrittenBack(b)
          /\ DOMAIN contactJoints' = DOMAIN contactJoints
          /\ \A i \in Slots : contactJoints'[joint_index[i]] = JointWrittenBack(i)

\* C17: no step of Prepare, Refresh, PreStep or of the impulse and
\* displacement passes changes a field of bodies[] or contactJoints[]; Finish
\* writes exactly the velocity, angular velocity, displacing velocity and
\* displacing angular velocity of each body and the three accumulated
\* impulses of contactJoints[joint_index[i]], taken from packed slot i.
CallerArraysOnlyWrittenInFinish == [][CallerArraysStep]_vars

\* Finish has written back velocities, displacing velocities and impulses
\* that the passes changed.
CallerArraysWitness ==
    /\ pc = "done"
    /\ JointCount >= 2
    /\ \E b \in DOMAIN bodies :
          /\ bodies[b].velocity # entry.bodies[b].velocity
          /\ bodies[b].displacingVelocity # entry.bodies[b].displacingVelocity
    /\ \E j \in DOMAIN contactJoints :
          /\ contactJoints[j].normalLimiter.accumulatedImpulse
               # entry.contactJoints[j].normalLimiter.accumulatedImpulse
          /\ contactJoints[j].normalLimiter.accumulatedDisplacingImpulse # Zero

-----------------------------------------------------------------------------
(* C18: the two loops.                                                     *)

\* The pass just run stored its index to a body's counter: it was productive.
ImpulsePassProductive ==
    \E b \in DOMAIN solveBodiesImpulse :
        solveBodiesImpulse'[b].lastIteration = iterationIndex

DisplacementPassProductive ==
    \E b \in DOMAIN solveBodiesDisplacement :
        solveBodiesDisplacement'[b].lastIteration = iterationIndex

LoopsStep ==
    /\ pc = "prestep" => pc' = "impulse" /\ iterationIndex' = 0
    /\ pc = "impulse" =>
          /\ iterationIndex <= contactIterationsCount
          /\ solveBodiesDisplacement' = solveBodiesDisplacement
          /\ IF iterationIndex < contactIterationsCount
             THEN IF ImpulsePassProductive
                  THEN pc' = "impulse" /\ iterationIndex' = iterationIndex + 1
                  ELSE pc' = "displacement" /\ iterationIndex' = 0
             ELSE /\ pc' = "displacement" /\ iterationIndex' = 0
                  /\ solveBodiesImpulse' = solveBodiesImpulse
                  /\ joint_packed' = joint_packed
    /\ pc = "displacement" =>
          /\ iterationIndex <= penetrationIterationsCount
          /\ solveBodiesImpulse' = solveBodiesImpulse
          /\ IF iterationIndex < penetrationIterationsCount
             THEN IF DisplacementPassProductive
                  THEN pc' = "displacement" /\ iterationIndex' = iterationIndex + 1
                  ELSE pc' = "finish"
             ELSE /\ pc' = "finish"
                  /\ solveBodiesDisplacement' = solveBodiesDisplacement
                  /\ joint_packed' = joint_packed
    /\ pc' = "displacement" => pc \in {"impulse", "displacement"}
    /\ pc' = "finish" => pc = "displacement"
    /\ pc = "finish" => pc' = "done"

\* C18: the impulse loop runs the passes 0, 1, 2, ... in order, ends right
\* after the first pass that is not productive and runs at most contactIters
\* passes; the displacement loop does the same with posIters and starts only
\* when the impulse loop has ended; every call reaches Finish and returns.
LoopsRunInOrderAndEnd ==
    /\ [][LoopsStep]_vars
    /\ (pc = "call") ~> (pc = "finish")
    /\ (pc = "finish") ~> (pc = "done")

\* The impulse loop was left by the break after a productive pass, before
\* its count was reached, and the displacement loop is past its first pass.
LoopsRunInOrderAndEndWitness ==
    /\ pc = "displacement"
    /\ iterationIndex >= 1
    /\ \E b \in DOMAIN solveBodiesImpulse : solveBodiesImpulse[b].lastIteration >= 0
    /\ \A b \in DOMAIN solveBodiesImpulse :
          solveBodiesImpulse[b].lastIteration + 2 < contactIterationsCount

-----------------------------------------------------------------------------
(* C19: the early-out of a lane block.                                     *)

\* A pass of the loop the call is in is about to run.
PassPending ==
    \/ pc = "impulse" /\ iterationIndex < contactIterationsCount
    \/ pc = "displacement" /\ iterationIndex < penetrationIterationsCount

PassTable == IF pc = "impulse" THEN solveBodiesImpulse ELSE solveBodiesDisplacement

\* The slots at which the pass starts a block: every N-th slot of the
\* grouped prefix, every slot of the tail.
BlockStarts ==
    {i \in Slots : (i < groupOffset /\ i % laneWidth = 0) \/ i >= groupOffset}

BlockWidth(first) == IF first < groupOffset THEN laneWidth ELSE 1

\* The tables when the pass gets to the block at slot first.
PassAt(first) ==
    LET st0 == [packed |-> joint_packed, table |-> PassTable, productive_any |-> FALSE]
    IN  IF first < groupOffset
        THEN SolveJointsLoop(pc, st0, 0, first, laneWidth, laneWidth, iterationIndex)
        ELSE SolveJointsLoop(pc,
                 SolveJointsLoop(pc, st0, 0, groupOffset, laneWidth, laneWidth,
                                 iterationIndex),
                 groupOffset, first, 1, laneWidth, iterationIndex)

\* The tables when the pass is through with that block.
PassPast(st, first) ==
    SolveJointsLoop(pc, st, first, first + BlockWidth(first), BlockWidth(first),
                    laneWidth, iterationIndex)

SlotOf(st, i) == st.packed[i \div laneWidth][i % laneWidth]

\* Both bodies of slot i have a counter of at most iterationIndex - 2.
LaneStale(st, i) ==
    /\ st.table[SlotOf(st, i).body1Index].lastIteration <= iterationIndex - 2
    /\ st.table[SlotOf(st, i).body2Index].lastIteration <= iterationIndex - 2

BlockLanes(first) == first..(first + BlockWidth(first) - 1)

\* Slot i and its two bodies are after the block what solving the lane from
\* the tables before the block makes them.
LaneSolved(st, past, i) ==
    LET jp == SlotOf(st, i)
        r == IF pc = "impulse"
             THEN ImpulseLane(jp, st.table[jp.body1Index], st.table[jp.body2Index],
                              iterationIndex)
             ELSE DisplacementLane(jp, st.table[jp.body1Index], st.table[jp.body2Index],
                                   iterationIndex)
    IN  /\ SlotOf(past, i) = r[1]
        /\ past.table[jp.body1Index] = r[2]
        /\ past.table[jp.body2Index] = r[3]

BlockSkippedOrSolved(first) ==
    LET st == PassAt(first)
        past == PassPast(st, first)
    IN  IF \A i \in BlockLanes(first) : LaneStale(st, i)
        THEN past.packed = st.packed /\ past.table = st.table
        ELSE \A i \in BlockLanes(first) : LaneSolved(st, past, i)

\* C19: in the pass with index it of either loop a lane block is skipped,
\* body velocities, counters and accumulated impulses of its joints left as
\* they are, if and only if both bodies of every lane have a counter of at
\* most it - 2; if some lane has a body with a larger counter, all lanes of
\* the block are solved.
BlockSkipRule ==
    PassPending => \A first \in BlockStarts : BlockSkippedOrSolved(first)

\* A pass in which a wide block is solved although one of its lanes is stale.
BlockSkipRuleWitness ==
    /\ PassPending
    /\ laneWidth > 1
    /\ \E first \in BlockStarts :
          /\ first < groupOffset
          /\ \E i \in BlockLanes(first) : LaneStale(PassAt(first), i)
          /\ \E i \in BlockLanes(first) : ~LaneStale(PassAt(first), i)

-----------------------------------------------------------------------------
(* C20: the productive flag of the impulse pass.                           *)

\* The accumulated normal or friction impulse of the slot differs between
\* the two lanes by more than 1e-4: max(|delta normal|, |delta friction|)
\* of the solve that led from one to the other met the threshold.
ThresholdMet(before, after) ==
    Greater(MaxF(AbsF(Sub(after.normalLimiter_accumulatedImpulse,
                          before.normalLimiter_accumulatedImpulse)),
                 AbsF(Sub(after.frictionLimiter_accumulatedImpulse,
                          before.frictionLimiter_accumulatedImpulse))),
            Q(1, 10000))

\* Both bodies of slot i have the counter c in the table.
BothCounters(st, i, c1, c2) ==
    /\ st.table[SlotOf(st, i).body1Index].lastIteration = c1
    /\ st.table[SlotOf(st, i).body2Index].lastIteration = c2

\* The counters of the two bodies of a solved slot: the pass index where the
\* joint met the threshold, else what they were when the joint was solved.
CountersOfSolved(st, past, i) ==
    IF ThresholdMet(SlotOf(st, i), SlotOf(past, i))
    THEN BothCounters(past, i, iterationIndex, iterationIndex)
    ELSE BothCounters(past, i,
                      st.table[SlotOf(st, i).body1Index].lastIteration,
                      st.table[SlotOf(st, i).body2Index].lastIteration)

SolvedBlocks ==
    {first \in BlockStarts : \E i \in BlockLanes(first) : ~LaneStale(PassAt(first), i)}

ProductiveStep ==
    (pc = "impulse" /\ iterationIndex < contactIterationsCount) =>
        /\ \A first \in SolvedBlocks : \A i \in BlockLanes(first) :
              CountersOfSolved(PassAt(first), PassPast(PassAt(first), first), i)
        /\ pc' = "impulse" <=>
              \E i \in Slots : ThresholdMet(PackedAt(i), joint_packed'[i \div laneWidth][i % laneWidth])

\* C20: a joint solved in impulse pass it leaves lastIteration = it in both
\* of its bodies if and only if max(|delta normal impulse|, |delta friction
\* impulse|) of the joint exceeds 1e-4, else both counters keep the value
\* they had; the pass returns true (the loop goes on) if and only if some
\* solved joint met the threshold.
ProductiveIffThresholdMet == [][ProductiveStep]_vars

\* A pass about to run in which one solved joint will meet the threshold and
\* another solved joint will not.
ProductiveIffThresholdMetWitness ==
    /\ pc = "impulse"
    /\ iterationIndex < contactIterationsCount
    /\ JointCount >= 2
    /\ \E first \in SolvedBlocks : \E i \in BlockLanes(first) :
          ThresholdMet(SlotOf(PassAt(first), i),
                       SlotOf(PassPast(PassAt(first), first), i))
    /\ \E first \in SolvedBlocks : \E i \in BlockLanes(first) :
          ~ThresholdMet(SlotOf(PassAt(first), i),
                        SlotOf(PassPast(PassAt(first), first), i))

-----------------------------------------------------------------------------
(* C21: what Refresh leaves alone.                                         *)

\* Slot i of the packed table after the step.
PackedAfter(i) == joint_packed'[i \div laneWidth][i % laneWidth]

RefreshStep ==
    pc = "refresh" =>
        /\ \A i \in Slots :
              /\ PackedAfter(i).normalLimiter_accumulatedDisplacingImpulse = Zero
              /\ PackedAfter(i).normalLimiter_accumulatedImpulse
                   = JointAt(i).normalLimiter.accumulatedImpulse
              /\ PackedAfter(i).frictionLimiter_accumulatedImpulse
                   = JointAt(i).frictionLimiter.accumulatedImpulse
              /\ PackedAfter(i).normalLimiter_accumulatedImpulse
                   = PackedAt(i).normalLimiter_accumulatedImpulse
              /\ PackedAfter(i).frictionLimiter_accumulatedImpulse
                   = PackedAt(i).frictionLimiter_accumulatedImpulse
        /\ solveBodiesImpulse' = solveBodiesImpulse
        /\ solveBodiesDisplacement' = solveBodiesDisplacement
        /\ solveBodiesParams' = solveBodiesParams

\* C21: RefreshJointsSoA sets the accumulated displacing impulse of every
\* joint to 0, leaves the accumulated normal and friction impulses as Prepare
\* copied them from the ContactJoint, and leaves the body tables unchanged.
RefreshKeepsWarmStart == [][RefreshStep]_vars

\* Refresh has run on a joint that came with accumulated normal and
\* displacing impulses from the call before.
RefreshKeepsWarmStartWitness ==
    /\ pc = "prestep"
    /\ \E i \in Slots :
          /\ JointAt(i).normalLimiter.accumulatedImpulse # Zero
          /\ JointAt(i).normalLimiter.accumulatedDisplacingImpulse # Zero
          /\ PackedAt(i).normalLimiter_accumulatedDisplacingImpulse = Zero

-----------------------------------------------------------------------------
(* C22: the order of a pass.                                               *)

\* The start of the last block of a pass over at least one joint.
LastBlockStart == CHOOSE first \in BlockStarts : \A other \in BlockStarts : other <= first

\* The block at slot first, solved from the tables the pass has when it gets
\* there, has a productive lane.
BlockFlag(first) ==
    SolveJointsLoop(pc, [PassAt(first) EXCEPT !.productive_any = FALSE],
                    first, first + BlockWidth(first), BlockWidth(first),
                    laneWidth, iterationIndex).productive_any

\* The body table of the loop the call is in, after the step.
PassTableAfter == IF pc = "impulse" THEN solveBodiesImpulse' ELSE solveBodiesDisplacement'

PassOrderStep ==
    PassPending =>
        /\ JointCount >= 1 =>
              /\ joint_packed' = PassPast(PassAt(LastBlockStart), LastBlockStart).packed
              /\ PassTableAfter = PassPast(PassAt(LastBlockStart), LastBlockStart).table
        /\ pc' = pc <=> \E first \in BlockStarts : BlockFlag(first)

\* C22: a pass works through the lane blocks of the grouped prefix in
\* ascending order and then through the joints of the tail in ascending
\* order, the tail also when the prefix was productive, and its productive
\* flag is the OR over the prefix and the tail.
PassPrefixThenTail == [][PassOrderStep]_vars

\* A pass about to run whose prefix will be productive and whose tail will
\* change a joint or a body.
PassPrefixThenTailWitness ==
    /\ PassPending
    /\ 0 < groupOffset
    /\ groupOffset < JointCount
    /\ \E first \in BlockStarts : first < groupOffset /\ BlockFlag(first)
    /\ \E first \in BlockStarts :
          /\ first >= groupOffset
          /\ PassPast(PassAt(first), first).table # PassAt(first).table

-----------------------------------------------------------------------------
(* C23: the two passes do not touch each other's data.                     *)

\* Slot i is after the step what it was, up to the named field.
SlotKeptBut(i, field) ==
    \A f \in DOMAIN PackedAt(i) : f # field => PackedAfter(i)[f] = PackedAt(i)[f]

PassesDecoupledStep ==
    /\ pc = "displacement" =>
          /\ solveBodiesImpulse' = solveBodiesImpulse
          /\ \A i \in Slots :
                /\ PackedAfter(i).normalLimiter_accumulatedImpulse
                     = PackedAt(i).normalLimiter_accumulatedImpulse
                /\ PackedAfter(i).frictionLimiter_accumulatedImpulse
                     = PackedAt(i).frictionLimiter_accumulatedImpulse
                /\ SlotKeptBut(i, "normalLimiter_accumulatedDisplacingImpulse")
    /\ pc = "impulse" =>
          /\ solveBodiesDisplacement' = solveBodiesDisplacement
          /\ \A i \in Slots :
                /\ PackedAfter(i).normalLimiter_accumulatedDisplacingImpulse
                     = PackedAt(i).normalLimiter_accumulatedDisplacingImpulse
                /\ \A f \in DOMAIN PackedAt(i) :
                      f \notin {"normalLimiter_accumulatedImpulse",
                                "frictionLimiter_accumulatedImpulse"}
                         => PackedAfter(i)[f] = PackedAt(i)[f]

\* C23: a displacement pass reads and writes only the displacement body
\* table and the accumulated displacing impulse of each joint and leaves the
\* impulse body table and the accumulated normal and friction impulses
\* unchanged; an impulse pass leaves the displacement table and the
\* accumulated displacing impulse unchanged.
PassesDecoupled == [][PassesDecoupledStep]_vars

\* A productive displacement pass has run after a productive impulse pass.
PassesDecoupledWitness ==
    /\ pc = "displacement"
    /\ iterationIndex >= 1
    /\ \E b \in DOMAIN bodies : solveBodiesImpulse[b].lastIteration >= 0
    /\ \E b \in DOMAIN bodies : solveBodiesDisplacement[b].lastIteration >= 0
    /\ \E i \in Slots :
          /\ PackedAt(i).normalLimiter_accumulatedImpulse # Zero
          /\ PackedAt(i).normalLimiter_accumulatedDisplacingImpulse # Zero

-----------------------------------------------------------------------------
(* C24: the counters start at -1 and pass 0 skips nothing.                 *)

\* No pass of the impulse (displacement) loop has run yet in this solve.
BeforeImpulseLoop ==
    pc \in {"refresh", "prestep"} \/ (pc = "impulse" /\ iterationIndex = 0)
BeforeDisplacementLoop ==
    \/ pc \in {"refresh", "prestep", "impulse"}
    \/ (pc = "displacement" /\ iterationIndex = 0)

\* Pass 0 solves every lane of the block at slot first.
BlockSolvedInFirstPass(first) ==
    LET st == PassAt(first)
        past == PassPast(st, first)
    IN  \A i \in BlockLanes(first) : ~LaneStale(st, i) /\ LaneSolved(st, past, i)

\* C24: SolvePrepareSoA sets lastIteration and lastDisplacementIteration of
\* every body to -1, so in pass 0 of each loop no lane block and no tail
\* joint is skipped by the early-out: every joint is solved at least once
\* whenever the loop's iteration count is at least 1.
FirstPassSolvesAll ==
    /\ BeforeImpulseLoop =>
          \A b \in DOMAIN bodies : solveBodiesImpulse[b].lastIteration = 0 - 1
    /\ BeforeDisplacementLoop =>
          \A b \in DOMAIN bodies : solveBodiesDisplacement[b].lastIteration = 0 - 1
    /\ (PassPending /\ iterationIndex = 0) =>
          \A first \in BlockStarts : BlockSolvedInFirstPass(first)

\* Pass 0 of the displacement loop is due over lane blocks and tail joints,
\* after an impulse loop that made progress.
FirstPassSolvesAllWitness ==
    /\ pc = "displacement"
    /\ iterationIndex = 0
    /\ penetrationIterationsCount >= 1
    /\ 0 < groupOffset
    /\ groupOffset < JointCount
    /\ laneWidth > 1
    /\ \E b \in DOMAIN bodies : solveBodiesImpulse[b].lastIteration >= 0
    /\ \E first \in BlockStarts : PassPast(PassAt(first), first).table # PassAt(first).table

-----------------------------------------------------------------------------
(* C25: the alignment assertions of the four joint loops.                  *)

\* Lines 576, 752, 819 and 977: the assertion on entry.
RangeAligned(jointBegin, jointEnd, VN) == jointBegin % VN = 0 /\ jointEnd % VN = 0

\* SolveJointsSoA is at a call of RefreshJointsSoA, PreStepJointsSoA,
\* SolveJointsImpulsesSoA or SolveJointsDisplacementSoA.
AtJointLoops == pc \in {"refresh", "prestep", "impulse", "displacement"}

\* C25: the assertion jointBegin % VN == 0 && jointEnd % VN == 0 holds for
\* every call that SolveJointsSoA makes, for every joint list and every lane
\* width of 1, 4 and 8: the wide call gets (0, groupOffset) with VN = N, the
\* scalar call gets (groupOffset, jointCount) with VN = 1.
AlignmentHolds ==
    AtJointLoops =>
        /\ laneWidth \in {1, 4, 8}
        /\ RangeAligned(0, groupOffset, laneWidth)
        /\ RangeAligned(groupOffset, JointCount, 1)
        /\ 0 <= groupOffset
        /\ groupOffset <= JointCount

\* A wide call over one block of four with a tail that the gather loop
\* could not group.
AlignmentHoldsWitness ==
    /\ AtJointLoops
    /\ laneWidth = 4
    /\ groupOffset = 4
    /\ JointCount - groupOffset \in 1..3
    /\ ~PairwiseBodyDisjoint

-----------------------------------------------------------------------------
(* C26: the slots the wide and the scalar loop visit.                      *)

\* The <<block, lane>> places that the loop over [jointBegin, jointEnd) with
\* step VN loads and stores, in the order of the loop.
RECURSIVE LoopVisits(_, _, _, _)
LoopVisits(jointBegin, jointEnd, VN, N) ==
    IF jointBegin < jointEnd
    THEN [l \in 1..VN |-> <<BlockOf(jointBegin, N), LaneOf(jointBegin, VN, N) + l - 1>>]
            \o LoopVisits(jointBegin + VN, jointEnd, VN, N)
    ELSE <<>>

\* The wide call followed by the scalar call.
CallVisits ==
    LoopVisits(0, groupOffset, laneWidth, laneWidth)
        \o LoopVisits(groupOffset, JointCount, 1, laneWidth)

\* The places of the packed table that hold no joint.
BeyondJointCount ==
    {<<blk, lane>> \in (DOMAIN joint_packed) \X (0..(laneWidth - 1)) :
        blk * laneWidth + lane >= JointCount}

SlotsVisited ==
    AtJointLoops =>
        LET visits == CallVisits
        IN  /\ Len(visits) = JointCount
            /\ \A i \in Slots :
                  Cardinality({k \in 1..Len(visits) : visits[k] = PackedSlot(i, laneWidth)}) = 1
            /\ \A i \in Slots : i >= groupOffset =>
                  visits[i + 1] = PackedSlot(i, laneWidth)
            /\ \A k \in 1..Len(visits) : visits[k] \notin BeyondJointCount
            /\ \A place \in BeyondJointCount : joint_packed[place[1]][place[2]] = Unset

\* Refresh leaves in slot i what refreshing the lane of slot i once gives.
RefreshVisitStep ==
    pc = "refresh" =>
        \A i \in Slots :
            PackedAfter(i) = RefreshLane(PackedAt(i), solveBodiesParams,
                                         solveBodiesImpulse, contactPoints)

\* C26: in Refresh, PreStep and every pass the wide loop over
\* [0, groupOffset) with step N and the scalar loop over
\* [groupOffset, jointCount) with step 1 together visit every packed slot
\* below jointCount exactly once; the scalar loop finds joint i in block
\* i / N, lane i mod N, where SolvePrepareSoA put it; no slot at or beyond
\* jointCount is read or written.
SlotsVisitedOnce == [](SlotsVisited) /\ [][RefreshVisitStep]_vars

\* The loops have run over a lane block and a tail that ends inside a block.
SlotsVisitedOnceWitness ==
    /\ pc = "displacement"
    /\ laneWidth = 4
    /\ 0 < groupOffset
    /\ groupOffset < JointCount
    /\ BeyondJointCount # {}
    /\ \E i \in Slots : i >= groupOffset /\ i % laneWidth # 0
                          /\ solveBodiesImpulse[PackedAt(i).body1Index].lastIteration >= 0

-----------------------------------------------------------------------------
(* C27: the counters only grow and stay below the pass index.              *)

\* Every counter of the table lies in lo .. hi.
CountersWithin(table, lo, hi) ==
    \A b \in DOMAIN table : lo <= table[b].lastIteration /\ table[b].lastIteration <= hi

\* No counter of after is below the one of before.
CountersNotBelow(before, after) ==
    \A b \in DOMAIN before : before[b].lastIteration <= after[b].lastIteration

\* The pass that is due, block after block: the counters before and after
\* every block.
CountersThroughPass ==
    \A first \in BlockStarts :
        LET st == PassAt(first)
            past == PassPast(st, first)
        IN  /\ CountersWithin(st.table, 0 - 1, iterationIndex)
            /\ CountersWithin(past.table, 0 - 1, iterationIndex)
            /\ CountersNotBelow(st.table, past.table)

CountersBounded ==
    /\ AtJointLoops =>
          /\ CountersWithin(solveBodiesImpulse, 0 - 1,
                            IF pc = "impulse" THEN iterationIndex - 1
                            ELSE IF pc = "displacement" THEN contactIterationsCount - 1
                            ELSE 0 - 1)
          /\ CountersWithin(solveBodiesDisplacement, 0 - 1,
                            IF pc = "displacement" THEN iterationIndex - 1 ELSE 0 - 1)
    /\ pc \in {"finish", "done"} =>
          /\ CountersWithin(solveBodiesImpulse, 0 - 1, contactIterationsCount - 1)
          /\ CountersWithin(solveBodiesDisplacement, 0 - 1, penetrationIterationsCount - 1)
    /\ PassPending => CountersThroughPass

CountersStep ==
    (pc # "call" /\ pc' # "call") =>
        /\ CountersNotBelow(solveBodiesImpulse, solveBodiesImpulse')
        /\ CountersNotBelow(solveBodiesDisplacement, solveBodiesDisplacement')
        /\ PassPending => CountersWithin(PassTableAfter, 0 - 1, iterationIndex)

\* C27: throughout the solve the lastIteration (and the
\* lastDisplacementIteration) of every body never decreases and lies in
\* [-1, it], it the index of the pass that is running; after the loop has
\* ended it is at most contactIters - 1 (posIters - 1).
CountersMonotoneBounded == [](CountersBounded) /\ [][CountersStep]_vars

\* A later pass is due in which a body that an earlier pass marked and a
\* body that no pass has marked yet both occur.
CountersMonotoneBoundedWitness ==
    /\ PassPending
    /\ iterationIndex >= 2
    /\ \E b \in DOMAIN PassTable : PassTable[b].lastIteration = iterationIndex - 1
    /\ \E b \in DOMAIN PassTable : PassTable[b].lastIteration < iterationIndex - 1

-----------------------------------------------------------------------------
(* C28: the break of lines 104 and 118 loses nothing.                      *)

\* The loop of lines 97-105 (111-119) without its break: every pass from
\* iterationIndex0 up to count is run.  productive tells whether one of them
\* returned true.
RECURSIVE RemainingPasses(_, _, _, _, _, _)
RemainingPasses(kind, packed, table, iterationIndex0, count, productive) ==
    IF iterationIndex0 < count
    THEN LET r == SolvePass(kind, packed, table, groupOffset, JointCount, laneWidth,
                            iterationIndex0)
         IN  RemainingPasses(kind, r.packed, r.table, iterationIndex0 + 1, count,
                             productive \/ r.productive)
    ELSE [packed |-> packed, table |-> table, productive |-> productive]

PassCount ==
    IF pc = "impulse" THEN contactIterationsCount ELSE penetrationIterationsCount

\* The pass that is due returns false.
PassNotProductive == PassPending /\ \A first \in BlockStarts : ~BlockFlag(first)

BreakStep ==
    (PassPending /\ pc' # pc) =>
        LET rest == RemainingPasses(pc, joint_packed', PassTableAfter,
                                    iterationIndex + 1, PassCount, FALSE)
        IN  /\ CountersWithin(PassTableAfter, 0 - 1, iterationIndex - 1)
            /\ \A k \in (iterationIndex + 1)..(PassCount - 1) :
                  \A i \in Slots :
                     /\ PassTableAfter[PackedAfter(i).body1Index].lastIteration <= k - 2
                     /\ PassTableAfter[PackedAfter(i).body2Index].lastIteration <= k - 2
            /\ rest.packed = joint_packed'
            /\ rest.table = PassTableAfter
            /\ ~rest.productive

\* C28: after a pass it that returned not productive every body has
\* lastIteration <= it - 1, so every lane block and every tail joint of pass
\* it + 1 and of the later passes would be skipped: running the remaining
\* passes up to contactIters (posIters) would leave the body velocities,
\* the counters and the accumulated impulses what they are at the break.
BreakLosesNothing == [][BreakStep]_vars

\* A pass after the first returns false with passes left to run, over
\* joints that earlier passes gave an impulse.
BreakLosesNothingWitness ==
    /\ PassNotProductive
    /\ iterationIndex >= 1
    /\ iterationIndex + 2 <= PassCount
    /\ JointCount >= 2
    /\ \E b \in DOMAIN PassTable : PassTable[b].lastIteration = iterationIndex - 1

-----------------------------------------------------------------------------
(* C29: the AoS passes, Solver::SolveJointsImpulsesAoS and                 *)
(* Solver::SolveJointsDisplacementAoS, against the scalar SoA passes.      *)
(* A ContactJoint is written as the lane record that SolvePrepareSoA makes *)
(* of it, a RigidBody as its entry of the body table of the pass.  body1   *)
(* and body2 of a joint are two bodies.                                    *)

\* Lines 406 and 494 with <= for <.
AoSSkippedAtCutoff(lastIteration1, lastIteration2, iterationIndex0) ==
    lastIteration1 <= iterationIndex0 - 1 /\ lastIteration2 <= iterationIndex0 - 1

\* Lines 406 and 494: the continue.
AoSSkipped(lastIteration1, lastIteration2, iterationIndex0) ==
    lastIteration1 < iterationIndex0 - 1 /\ lastIteration2 < iterationIndex0 - 1

\* Lines 421-422 and 509-510.
AoSClampDelta(deltaImpulse, accumulated) ==
    IF Less(Add(deltaImpulse, accumulated), Zero) THEN Neg(accumulated) ELSE deltaImpulse

\* Lines 445-456: frictionForce, dir and the clamped delta impulse.
AoSFrictionDir(frictionForce) == IF Greater(frictionForce, Zero) THEN One ELSE Neg(One)
AoSFrictionDelta(frictionDeltaImpulse, accumulatedImpulse, reactionForce) ==
    IF Greater(AbsF(Add(accumulatedImpulse, frictionDeltaImpulse)),
               Mul(reactionForce, kFrictionCoefficient))
    THEN Sub(Mul(Mul(AoSFrictionDir(Add(accumulatedImpulse, frictionDeltaImpulse)),
                     reactionForce),
                 kFrictionCoefficient),
             accumulatedImpulse)
    ELSE frictionDeltaImpulse

\* Lines 470-475 and 522-527: the counters set if the impulse was productive.
AoSMark(joint, body1, body2, iterationIndex0, productive) ==
    <<joint,
      [body1 EXCEPT !.lastIteration = IF productive THEN iterationIndex0 ELSE @],
      [body2 EXCEPT !.lastIteration = IF productive THEN iterationIndex0 ELSE @],
      productive>>

\* Lines 458-475.
AoSImpulseFrictionApply(joint, body1, body2, iterationIndex0, normalDeltaImpulse, frictionDeltaImpulse) ==
    AoSMark([joint EXCEPT !.frictionLimiter_accumulatedImpulse =
                              Add(@, frictionDeltaImpulse)],
            ApplyImpulse(body1, joint.frictionLimiter.compMass1_linear,
                         joint.frictionLimiter.compMass1_angular, frictionDeltaImpulse),
            ApplyImpulse(body2, joint.frictionLimiter.compMass2_linear,
                         joint.frictionLimiter.compMass2_angular, frictionDeltaImpulse),
            iterationIndex0,
            Greater(MaxF(AbsF(normalDeltaImpulse), AbsF(frictionDeltaImpulse)),
                    kProductiveImpulse))

\* Lines 433-456: joint and bodies are those the normal impulse has changed.
AoSImpulseFriction(joint, body1, body2, iterationIndex0, normalDeltaImpulse) ==
    AoSImpulseFrictionApply(
        joint, body1, body2, iterationIndex0, normalDeltaImpulse,
        AoSFrictionDelta(Mul(LimiterDV(Zero, joint.frictionLimiter, body1, body2),
                             joint.frictionLimiter.compInvMass),
                         joint.frictionLimiter_accumulatedImpulse,
                         joint.normalLimiter_accumulatedImpulse))

\* Lines 424-431.
AoSImpulseNormalApply(joint, body1, body2, iterationIndex0, normalDeltaImpulse) ==
    AoSImpulseFriction(
        [joint EXCEPT !.normalLimiter_accumulatedImpulse = Add(@, normalDeltaImpulse)],
        ApplyImpulse(body1, joint.normalLimiter.compMass1_linear,
                     joint.normalLimiter.compMass1_angular, normalDeltaImpulse),
        ApplyImpulse(body2, joint.normalLimiter.compMass2_linear,
                     joint.normalLimiter.compMass2_angular, normalDeltaImpulse),
        iterationIndex0, normalDeltaImpulse)

\* Lines 409-475: one joint of SolveJointsImpulsesAoS that is not skipped.
AoSImpulseJoint(joint, body1, body2, iterationIndex0) ==
    AoSImpulseNormalApply(
        joint, body1, body2, iterationIndex0,
        AoSClampDelta(Mul(LimiterDV(joint.normalLimiter_dstVelocity, joint.normalLimiter,
                                    body1, body2),
                          joint.normalLimiter.compInvMass),
                      joint.normalLimiter_accumulatedImpulse))

\* Lines 512-527.
AoSDisplacementApply(joint, body1, body2, iterationIndex0, displacingDeltaImpulse) ==
    AoSMark([joint EXCEPT !.normalLimiter_accumulatedDisplacingImpulse =
                              Add(@, displacingDeltaImpulse)],
            ApplyImpulse(body1, joint.normalLimiter.compMass1_linear,
                         joint.normalLimiter.compMass1_angular, displacingDeltaImpulse),
            ApplyImpulse(body2, joint.normalLimiter.compMass2_linear,
                         joint.normalLimiter.compMass2_angular, displacingDeltaImpulse),
            iterationIndex0,
            Greater(AbsF(displacingDeltaImpulse), kProductiveImpulse))

\* Lines 497-527: one joint of SolveJointsDisplacementAoS that is not skipped.
AoSDisplacementJoint(joint, body1, body2, iterationIndex0) ==
    AoSDisplacementApply(
        joint, body1, body2, iterationIndex0,
        AoSClampDelta(Mul(LimiterDV(joint.normalLimiter_dstDisplacingVelocity,
                                    joint.normalLimiter, body1, body2),
                          joint.normalLimiter.compInvMass),
                      joint.normalLimiter_accumulatedDisplacingImpulse))

\* What one joint leaves: st = [joints, bodies, productive].
AoSJointStore(st, jointIndex, joint, res) ==
    [joints |-> [st.joints EXCEPT ![jointIndex] = res[1]],
     bodies |-> [st.bodies EXCEPT ![joint.body1Index] = res[2],
                                  ![joint.body2Index] = res[3]],
     productive |-> st.productive \/ res[4]]

\* One iteration of the loops of lines 399-477 and 487-528.
AoSJoint(kind, st, jointIndex, joint, iterationIndex0) ==
    IF AoSSkipped(st.bodies[joint.body1Index].lastIteration,
                  st.bodies[joint.body2Index].lastIteration, iterationIndex0)
    THEN st
    ELSE AoSJointStore(st, jointIndex, joint,
            IF kind = "impulse"
            THEN AoSImpulseJoint(joint, st.bodies[joint.body1Index],
                                 st.bodies[joint.body2Index], iterationIndex0)
            ELSE AoSDisplacementJoint(joint, st.bodies[joint.body1Index],
                                      st.bodies[joint.body2Index], iterationIndex0))

\* SolveJointsImpulsesAoS (kind "impulse", lines 393-479) and
\* SolveJointsDisplacementAoS (kind "displacement", lines 481-531).
RECURSIVE SolveJointsAoS(_, _, _, _, _)
SolveJointsAoS(kind, st, jointBegin, jointEnd, iterationIndex0) ==
    IF jointBegin < jointEnd
    THEN SolveJointsAoS(kind,
                        AoSJoint(kind, st, jointBegin, st.joints[jointBegin],
                                 iterationIndex0),
                        jointBegin + 1, jointEnd, iterationIndex0)
    ELSE st

\* The first slot of the scalar call of the pass that is due, and the tables
\* it starts from.
ScalarBegin == IF laneWidth = 1 THEN 0 ELSE groupOffset
ScalarStart ==
    [SolveJointsLoop(pc, [packed |-> joint_packed, table |-> PassTable,
                          productive_any |-> FALSE],
                     0, ScalarBegin, laneWidth, laneWidth, iterationIndex)
        EXCEPT !.productive_any = FALSE]

\* The same joints in the same order, for the AoS pass.
AoSStart(st) ==
    [joints |-> [i \in Slots |-> SlotOf(st, i)], bodies |-> st.table,
     productive |-> FALSE]

\* The joint at slot i is skipped by both passes or by neither.
SameSkip(i) ==
    LET st == PassAt(i)
        joint == SlotOf(st, i)
    IN  AoSSkipped(st.table[joint.body1Index].lastIteration,
                   st.table[joint.body2Index].lastIteration, iterationIndex)
          <=> ~BlockProductive(st.table, LoadLanes(st.packed, i, 1, laneWidth), 1,
                               iterationIndex)

\* C29: the AoS impulse pass and the scalar SoA impulse pass are the same
\* state machine: from equal body velocities, counters, limiter data and
\* accumulated impulses with normal.accumulated >= 0, the same joint order
\* and the same iterationIndex they skip the same joints and leave the same
\* normal clamp, friction-cone clamp, counters and productive flag; likewise
\* the two displacement passes.
AoSIsScalarSoA ==
    PassPending =>
        LET start == ScalarStart
            soa == SolveJointsLoop(pc, start, ScalarBegin, JointCount, 1, laneWidth,
                                   iterationIndex)
            aos == SolveJointsAoS(pc, AoSStart(start), ScalarBegin, JointCount,
                                  iterationIndex)
        IN  /\ \A i \in Slots : SlotOf(start, i).normalLimiter_accumulatedImpulse >= Zero
            /\ \A i \in Slots : aos.joints[i] = SlotOf(soa, i)
            /\ aos.bodies = soa.table
            /\ aos.productive = soa.productive_any
            /\ \A i \in Slots : i >= ScalarBegin => SameSkip(i)

\* An impulse pass after the first is due whose scalar call leaves the
\* friction impulse of a joint on the cone and is productive.
AoSIsScalarSoAWitness ==
    /\ PassPending
    /\ pc = "impulse"
    /\ iterationIndex >= 1
    /\ ScalarBegin < JointCount
    /\ \E i \in Slots :
          LET after == SlotOf(PassPast(PassAt(i), i), i)
          IN  /\ i >= ScalarBegin
              /\ after.frictionLimiter_accumulatedImpulse # Zero
              /\ 10 * AbsInt(after.frictionLimiter_accumulatedImpulse)
                    >= 3 * after.normalLimiter_accumulatedImpulse - 10
    /\ SolveJointsAoS(pc, AoSStart(ScalarStart), ScalarBegin, JointCount,
                      iterationIndex).productive

-----------------------------------------------------------------------------
(* C30: the target velocities that Refresh computes.                       *)

\* Relative velocities of the contact points, up to 4 in each direction.
MaxSpeed == 4
RelativeVelocities ==
    {Vec(IntF(x), IntF(y)) : x \in (0 - MaxSpeed)..MaxSpeed, y \in {0 - MaxSpeed, 0, 1}}

\* The target velocity of the claim for a contact of the given depth.
TargetByDepth(depth) == IF Less(depth, One) THEN Neg(Q(1, 10)) ELSE Zero

\* 0.1 * max(0, depth - 2) in millionths, depth a whole number of them.
DisplacingByDepth(depth) ==
    IF depth > 2 * Scale THEN Mul(Q(1, 10), depth - 2 * Scale) ELSE Zero

\* Refresh has run in this call.
RefreshDone == pc \in {"prestep", "impulse", "displacement", "finish"}

\* C30: with bounce = 0 and deltaVelocity = 1 the normal target velocity
\* that Refresh computes does not depend on the velocities of the bodies:
\* dstVelocity is exactly -0.1 when depth < 1 and exactly 0 otherwise;
\* dstDisplacingVelocity is 0.1 * max(0, depth - 2) and never negative.
TargetVelocityByDepthOnly ==
    /\ bounce = Zero
    /\ deltaVelocity = One
    /\ RefreshDone =>
          \A i \in Slots :
             /\ PackedAt(i).normalLimiter_dstVelocity
                  = TargetByDepth(ContactDepth(joint_index[i]))
             /\ PackedAt(i).normalLimiter_dstDisplacingVelocity
                  = DisplacingByDepth(ContactDepth(joint_index[i]))
             /\ PackedAt(i).normalLimiter_dstDisplacingVelocity >= Zero
    /\ pc = "prestep" =>
          \A i \in Slots, relativeVelocity \in RelativeVelocities :
             DstVelocity(relativeVelocity, contactPoints[PackedAt(i).contactPointIndex].normal,
                         ContactDepth(joint_index[i]))
                = PackedAt(i).normalLimiter_dstVelocity

\* Refresh has run on bodies that move, over a contact of depth 1, a
\* shallower and a deeper one.
TargetVelocityByDepthOnlyWitness ==
    /\ pc = "prestep"
    /\ \E b \in DOMAIN bodies : solveBodiesImpulse[b].velocity # VZero
    /\ \E i \in Slots : ContactDepth(joint_index[i]) = One
                          /\ PackedAt(i).normalLimiter_dstVelocity = Zero
    /\ \E i \in Slots : ContactDepth(joint_index[i]) < One
                          /\ PackedAt(i).normalLimiter_dstVelocity = Neg(Q(1, 10))
    /\ \E i \in Slots : PackedAt(i).normalLimiter_dstDisplacingVelocity = Q(1, 10)

====
